---- MODULE Spec2Model ----
(***************************************************************************)
(* Verification model of the MarkdownParser repository.                    *)
(*                                                                         *)
(* Text is modelled as a sequence of one-character strings, a token as a   *)
(* record [type, value, position], a tree node as a record tagged by its   *)
(* class (field "node"), and a serialized node as a record tagged by its   *)
(* "type" key.  Python's None is the value None below.                     *)
(***************************************************************************)
EXTENDS Integers, Sequences, FiniteSets, TLC

VARIABLES
    text,       \* the source text handed to a lexer / parse_markdown
    pos,        \* the cursor of the lexer that runs (Lexer.pos, Lexer.i)
    tokens,     \* the list built by Lexer.tokenize
    prevPos,    \* history: the cursor before the latest next_token call
    calls,      \* history: number of next_token calls made so far
    pc,         \* where the caller of parse_markdown / to_dict / from_dict stands
    doc,        \* the outcome of parse_markdown(text)
    dict,       \* doc.to_dict()
    restored,   \* Document.from_dict(dict)
    strategy,   \* the class of the cache strategy instance: "LRU" or "LFU"
    capacity,   \* its capacity
    cache,      \* self.cache: the dict's entries, in insertion order
    order,      \* LRUCache.order
    hits,       \* self.hits
    misses,     \* self.misses
    lastOp,     \* history: the latest call on the strategy and what it did
    gets,       \* history: number of get calls made
    lastSet,    \* history: key -> value of its latest set since the last clear
    evicted,    \* history: keys evicted since their latest set
    clock,      \* history: number of calls made
    lastTouch,  \* history: key -> clock of its latest get hit or set
    enabled,    \* CacheManager.enabled
    mgrOp,      \* history: the latest call on the CacheManager or on its strategy
    stored,     \* history: (namespace, text) -> value of the latest set_X(text, value)
    store,      \* InMemoryCacheBackend.store of the ParserService's CacheService
    perfCount,  \* PerfMonitor.count of the ParserService
    svcOp,      \* history: the latest call on the ParserService or its backend
    first,      \* history: text -> tree returned by the first parse(text) that returned
    lock,       \* self.lock of the cache strategy: the thread inside "with self.lock", or "free"
    thr,        \* thread -> its call in progress and its position in it
    started,    \* history: number of calls the threads have begun
    contended,  \* history: a thread has waited for the lock while another held it
    html,       \* the string a renderer returned, as the list of its fragments
    emits,      \* history: what the renderer wrote for each payload and heading
    tpos,       \* TokenStream.pos of a parser on which the lookahead probes are called
    probe,      \* history: the probe called last, the cursor before it and its result
    renderer,   \* a renderer object: its class, its pretty flag and its _parts
    renders     \* the render calls made on the renderer object

lexVars == <<text, pos, tokens, prevPos, calls>>
parseVars == <<pc, doc, dict, restored>>
cacheVars == <<strategy, capacity, cache, order, hits, misses>>
cacheHist == <<lastOp, gets, lastSet, evicted, clock, lastTouch>>
mgrVars == <<enabled, mgrOp, stored>>
svcVars == <<store, perfCount, svcOp, first>>
thrVars == <<lock, thr, started, contended>>
rndVars == <<html, emits>>
prbVars == <<tpos, probe>>
instVars == <<renderer, renders>>

vars == <<text, pos, tokens, prevPos, calls, pc, doc, dict, restored,
          strategy, capacity, cache, order, hits, misses,
          lastOp, gets, lastSet, evicted, clock, lastTouch,
          enabled, mgrOp, stored, store, perfCount, svcOp, first,
          lock, thr, started, contended, html, emits,
          tpos, probe,
          renderer, renders>>

----------------------------------------------------------------------------
(* Bounds *)

MaxLexLen == 4
\* next_token calls after which a run of tokenize is no longer followed
MaxCalls == 6
\* longest text handed to parse_markdown
MaxParseLen == 4
\* most pieces of markup a composed text is made of
MaxPieces == 3
\* largest capacity a cache is constructed with
MaxCapacity == 2
\* calls on a cache strategy that are followed
MaxOps == 5
\* calls on a CacheManager that are followed
MaxManagerOps == 3
\* calls on a ParserService (and on its cache backend) that are followed
MaxServiceCalls == 4
\* calls the threads begin on the shared cache strategy
MaxThreadCalls == 3
\* length of the short texts rendered, and pieces in the composed ones
MaxRenderLen == 2
MaxRenderPieces == 2
\* render calls made on one renderer object
MaxRenders == 2
\* length of the strings given to parse_inline_from_text
MaxInlineLen == 4
\* frames the interpreter leaves to Parser.parse before it raises RecursionError
\* (sys.getrecursionlimit() less the caller's frames), scaled to the texts parsed
RecursionLimit == 8
\* length of the texts on whose tokens the probes are called, and fence lengths tried
MaxProbeLen == 4
MaxFence == 3

----------------------------------------------------------------------------
(* Characters and strings *)

NL == "\n"
CR == "\r"
SP == " "
\* the backtick character (a backtick cannot be written in a string literal here)
BT == "<backtick>"

None == <<"None">>

\* str.isspace for the characters of the model
IsSpaceChar(c) == c \in {SP, NL, CR, "\t"}

\* the characters the lexers treat as digits
IsDigit(c) == c \in {"0", "1", "2", "3", "4", "5", "6", "7", "8", "9"}

\* all strings over alphabet A of length at most n
StringsUpTo(A, n) == UNION {[1..k -> A] : k \in 0..n}

\* text[a:b] of Python, 0-based, a <= b <= len
Slice(s, a, b) == SubSeq(s, a + 1, b)

RECURSIVE Concat(_)
\* ''.join(parts)
Concat(parts) ==
    IF parts = <<>> THEN <<>> ELSE Head(parts) \o Concat(Tail(parts))

RECURSIVE LStrip(_)
LStrip(s) ==
    IF s # <<>> /\ IsSpaceChar(Head(s)) THEN LStrip(Tail(s)) ELSE s

RECURSIVE RStrip(_)
RStrip(s) ==
    IF s # <<>> /\ IsSpaceChar(s[Len(s)]) THEN RStrip(SubSeq(s, 1, Len(s) - 1)) ELSE s

\* str.strip()
Strip(s) == RStrip(LStrip(s))

\* str.startswith(prefix)
StartsWith(s, prefix) ==
    Len(s) >= Len(prefix) /\ SubSeq(s, 1, Len(prefix)) = prefix

----------------------------------------------------------------------------
(* mdparser/markdown_parser/lexer.py *)

Token(type, value, position) ==
    [type |-> type, value |-> value, position |-> position]

\* the stop set of the TEXT loop
TextStopChars == {"#", "*", "[", "]", "(", ")", "_", NL, BT, "-", SP}

\* Lexer._peek(sequence) with the cursor at p
LexerPeek(txt, p, sequence) ==
    LET end == p + Len(sequence)
    IN  IF end > Len(txt) THEN FALSE ELSE Slice(txt, p, end) = sequence

RECURSIVE RunEnd(_, _, _)
\* first index >= p (0-based) whose character is not in set S, or len
RunEnd(txt, p, S) ==
    IF p < Len(txt) /\ txt[p + 1] \in S THEN RunEnd(txt, p + 1, S) ELSE p

RECURSIVE StopEnd(_, _, _)
\* first index >= p (0-based) whose character is in set S, or len
StopEnd(txt, p, S) ==
    IF p < Len(txt) /\ txt[p + 1] \notin S THEN StopEnd(txt, p + 1, S) ELSE p

\* re.match(r"\d+\.", text[p:]): length of the match, 0 when there is none
NumberMatchLen(txt, p) ==
    LET e == RunEnd(txt, p, {"0", "1", "2", "3", "4", "5", "6", "7", "8", "9"})
    IN  IF e > p /\ e < Len(txt) /\ txt[e + 1] = "." THEN e + 1 - p ELSE 0

\* a TEXT loop that also stops at '.', a character no earlier branch handles
TextEndStopsAtDot(txt, p) == StopEnd(txt, p, TextStopChars \cup {"."})

\* the TEXT loop: the index at which the run of ordinary characters ends
TextEnd(txt, p) == StopEnd(txt, p, TextStopChars)

SingleCharType(ch) ==
    CASE ch = "#" -> "HASH"
      [] ch = "-" -> "DASH"
      [] ch = "_" -> "UNDERSCORE"
      [] ch = "*" -> "STAR"
      [] ch = BT -> "BACKTICK"
      [] ch = "[" -> "LBRACKET"
      [] ch = "]" -> "RBRACKET"
      [] ch = "(" -> "LPAREN"
      [] ch = ")" -> "RPAREN"

\* Lexer.next_token with the cursor at p: the token and the new cursor
NextToken(txt, p) ==
    IF p >= Len(txt) THEN [tok |-> Token("EOF", <<>>, p), pos |-> p]
    ELSE LET ch == txt[p + 1] IN
      IF ch = NL THEN [tok |-> Token("NEWLINE", <<NL>>, p + 1), pos |-> p + 1]
      ELSE IF ch = SP THEN
        LET e == RunEnd(txt, p, {SP})
            value == Slice(txt, p, e)
        IN  IF Len(value) >= 4
            THEN [tok |-> Token("INDENT", value, p), pos |-> e]
            ELSE [tok |-> Token("SPACE", value, p), pos |-> e]
      ELSE IF ch \in {"#", "-"} THEN
        [tok |-> Token(SingleCharType(ch), <<ch>>, p + 1), pos |-> p + 1]
      ELSE IF LexerPeek(txt, p, <<"*", "*">>) THEN
        [tok |-> Token("DOUBLE_STAR", <<"*", "*">>, p + 2), pos |-> p + 2]
      ELSE IF ch \in {"_", "*", BT, "[", "]", "(", ")"} THEN
        [tok |-> Token(SingleCharType(ch), <<ch>>, p + 1), pos |-> p + 1]
      ELSE LET n == NumberMatchLen(txt, p) IN
        IF n > 0 THEN
          [tok |-> Token("NUMBER", Slice(txt, p, p + n), p + n), pos |-> p + n]
        ELSE
          LET e == TextEnd(txt, p)
          IN  [tok |-> Token("TEXT", Slice(txt, p, e), p), pos |-> e]

RECURSIVE TokenizeFrom(_, _)
TokenizeFrom(txt, p) ==
    LET r == NextToken(txt, p)
    IN  IF r.tok.type = "EOF" THEN <<r.tok>>
        ELSE <<r.tok>> \o TokenizeFrom(txt, r.pos)

\* Lexer(text).tokenize()
Tokenize(txt) == TokenizeFrom(txt, 0)

----------------------------------------------------------------------------
(* mdparser/markdown_parser/ast_nodes.py: the node classes.  A node is a    *)
(* record whose field "node" names its class, with the dataclass fields.   *)

Text(t) == [node |-> "Text", text |-> t]
CodeSpan(code) == [node |-> "CodeSpan", code |-> code]
Bold(children) == [node |-> "Bold", children |-> children]
Italic(children) == [node |-> "Italic", children |-> children]
Link(text_nodes, url, title) ==
    [node |-> "Link", text_nodes |-> text_nodes, url |-> url, title |-> title]
Paragraph(inlines) == [node |-> "Paragraph", inlines |-> inlines]
Heading(level, inlines) == [node |-> "Heading", level |-> level, inlines |-> inlines]
CodeBlock(code, language) == [node |-> "CodeBlock", code |-> code, language |-> language]
BlockQuote(children) == [node |-> "BlockQuote", children |-> children]
ListItem(children) == [node |-> "ListItem", children |-> children]
ListBlock(items, ordered) == [node |-> "ListBlock", items |-> items, ordered |-> ordered]
HorizontalRule == [node |-> "HorizontalRule"]
Document(blocks) == [node |-> "Document", blocks |-> blocks]

----------------------------------------------------------------------------
(* mdparser/markdown_parser/parser.py: TokenStream.  The stream is the      *)
(* token list ts and the cursor p (TokenStream.pos).                        *)

TSPeek(ts, p) == IF p < Len(ts) THEN ts[p + 1] ELSE Token("EOF", <<>>, p)

\* the cursor after TokenStream.next()
TSNext(ts, p) == IF p < Len(ts) THEN p + 1 ELSE p

TSMatch(ts, p, ttype) == TSPeek(ts, p).type = ttype

TSEof(ts, p) == TSPeek(ts, p).type = "EOF"

(* The result of a parsing method: ok is FALSE when it raised ParseError,   *)
(* pos is the cursor it left, val its return value, and ev a history of    *)
(* the calls made inside it: <<"link", q>> for parse_link entered with the  *)
(* cursor at q, <<"url", q>> for a url portion opened by the '(' at q.      *)
Ok(p, v, ev) == [ok |-> TRUE, pos |-> p, val |-> v, ev |-> ev]
Raise(p, ev) == [ok |-> FALSE, pos |-> p, val |-> <<>>, ev |-> ev]

\* an expect that consumes the token when it is there and never raises
ExpectLenient(ts, p, ttype) ==
    [ok |-> TRUE, pos |-> IF TSMatch(ts, p, ttype) THEN TSNext(ts, p) ELSE p]

\* TokenStream.expect: raises ParseError unless the current token has ttype
Expect(ts, p, ttype) ==
    IF TSPeek(ts, p).type # ttype THEN [ok |-> FALSE, pos |-> p]
    ELSE [ok |-> TRUE, pos |-> TSNext(ts, p)]

RECURSIVE TypeRunEnd(_, _, _)
\* the cursor after the run of tokens whose type is in S that starts at p
TypeRunEnd(ts, p, S) ==
    IF p < Len(ts) /\ ts[p + 1].type \in S THEN TypeRunEnd(ts, p + 1, S) ELSE p

\* Parser._is_open_fence
IsOpenFence(ts, p) == TypeRunEnd(ts, p, {"BACKTICK"}) - p >= 3

\* Parser._is_close_fence / Parser._peek_backtick_sequence
PeekBacktickSequence(ts, p, count) ==
    \A k \in 0..(count - 1) : p + k < Len(ts) /\ ts[p + k + 1].type = "BACKTICK"

\* a close test that takes any backtick for the closing fence
IsCloseFenceAnyBacktick(ts, p, fence_count) == PeekBacktickSequence(ts, p, 1)
IsCloseFence(ts, p, fence_count) == PeekBacktickSequence(ts, p, fence_count)

----------------------------------------------------------------------------
(* Inline parsing.  Each loop of the parser is a recursive operator; the   *)
(* part of a loop body that uses the result of a nested parsing method is  *)
(* an operator of its own (...Step, ...Done) that receives that result.    *)

RECURSIVE ParseInlineLoop(_, _, _, _, _), BoldLoop(_, _, _, _),
          ItalicLoop(_, _, _, _, _), CodespanLoop(_, _, _, _),
          LinkTextLoop(_, _, _, _), UrlLoop(_, _, _),
          ParseBold(_, _), ParseItalic(_, _), ParseCodespan(_, _), ParseLink(_, _)

\* the fallback of every inline loop: consume one token as Text
TokenAsText(ts, p) == Ok(TSNext(ts, p), Text(TSPeek(ts, p).value), {})

\* parse_inline_until: the branch taken for the token at the cursor
InlineDispatch(ts, p) ==
    LET ty == TSPeek(ts, p).type IN
    CASE ty = "DOUBLE_STAR" -> ParseBold(ts, p)
      [] ty \in {"STAR", "UNDERSCORE"} -> ParseItalic(ts, p)
      [] ty = "BACKTICK" -> ParseCodespan(ts, p)
      [] ty = "LBRACKET" -> ParseLink(ts, p)
      [] OTHER -> TokenAsText(ts, p)

\* parse_inline_until: nodes.append(sub) and continue, or the raise leaves
InlineStep(ts, stop, nodes, ev, sub) ==
    IF ~sub.ok THEN Raise(sub.pos, ev \cup sub.ev)
    ELSE ParseInlineLoop(ts, sub.pos, stop, Append(nodes, sub.val), ev \cup sub.ev)

\* the while loop of parse_inline_until
ParseInlineLoop(ts, p, stop, nodes, ev) ==
    IF TSEof(ts, p) \/ TSMatch(ts, p, stop) THEN Ok(p, nodes, ev)
    ELSE IF TSMatch(ts, p, "BACKTICK") /\ IsOpenFence(ts, p) THEN Ok(p, nodes, ev)
    ELSE InlineStep(ts, stop, nodes, ev, InlineDispatch(ts, p))

\* Parser.parse_inline_until
ParseInlineUntil(ts, p, stop) == ParseInlineLoop(ts, p, stop, <<>>, {})

\* parse_bold: the branch taken for the token at the cursor
BoldDispatch(ts, p) ==
    LET ty == TSPeek(ts, p).type IN
    CASE ty = "STAR" -> ParseItalic(ts, p)
      [] ty = "LBRACKET" -> ParseLink(ts, p)
      [] ty = "BACKTICK" -> ParseCodespan(ts, p)
      [] OTHER -> TokenAsText(ts, p)

BoldStep(ts, children, ev, sub) ==
    IF ~sub.ok THEN Raise(sub.pos, ev \cup sub.ev)
    ELSE BoldLoop(ts, sub.pos, Append(children, sub.val), ev \cup sub.ev)

\* the while loop of parse_bold and the closing '**'
BoldLoop(ts, p, children, ev) ==
    IF TSEof(ts, p) \/ TSMatch(ts, p, "DOUBLE_STAR") \/ TSMatch(ts, p, "NEWLINE")
    THEN Ok(IF TSMatch(ts, p, "DOUBLE_STAR") THEN TSNext(ts, p) ELSE p,
            Bold(children), ev)
    ELSE BoldStep(ts, children, ev, BoldDispatch(ts, p))

\* Parser.parse_bold
ParseBold(ts, p) ==
    IF ~TSMatch(ts, p, "DOUBLE_STAR")
    THEN Ok(TSNext(ts, p), Bold(<<Text(<<>>)>>), {})
    ELSE BoldLoop(ts, TSNext(ts, p), <<>>, {})

\* parse_italic: the branch taken for the token at the cursor
ItalicDispatch(ts, p) ==
    LET ty == TSPeek(ts, p).type IN
    CASE ty = "DOUBLE_STAR" -> ParseBold(ts, p)
      [] ty = "BACKTICK" -> ParseCodespan(ts, p)
      [] ty = "LBRACKET" -> ParseLink(ts, p)
      [] OTHER -> TokenAsText(ts, p)

ItalicStep(ts, opener, children, ev, sub) ==
    IF ~sub.ok THEN Raise(sub.pos, ev \cup sub.ev)
    ELSE ItalicLoop(ts, sub.pos, opener, Append(children, sub.val), ev \cup sub.ev)

\* the while loop of parse_italic and the closing token
ItalicLoop(ts, p, opener, children, ev) ==
    IF TSEof(ts, p) \/ TSMatch(ts, p, opener) \/ TSMatch(ts, p, "NEWLINE")
    THEN Ok(IF TSMatch(ts, p, opener) THEN TSNext(ts, p) ELSE p,
            Italic(children), ev)
    ELSE ItalicStep(ts, opener, children, ev, ItalicDispatch(ts, p))

\* Parser.parse_italic
ParseItalic(ts, p) == ItalicLoop(ts, TSNext(ts, p), TSPeek(ts, p).type, <<>>, {})

CodespanLoop(ts, p, count, parts) ==
    IF TSEof(ts, p) THEN Ok(p, CodeSpan(Strip(Concat(parts))), {})
    ELSE IF PeekBacktickSequence(ts, p, count)
    THEN Ok(p + count, CodeSpan(Strip(Concat(parts))), {})
    ELSE CodespanLoop(ts, TSNext(ts, p), count, Append(parts, TSPeek(ts, p).value))

\* Parser.parse_codespan
ParseCodespan(ts, p) ==
    LET e == TypeRunEnd(ts, p, {"BACKTICK"})
    IN  CodespanLoop(ts, e, e - p, <<>>)

\* the url loop of parse_link: the cursor after it and the parts collected
UrlLoop(ts, p, url_parts) ==
    IF TSEof(ts, p) \/ TSMatch(ts, p, "RPAREN")
    THEN [pos |-> p, parts |-> url_parts]
    ELSE UrlLoop(ts, TSNext(ts, p), Append(url_parts, TSPeek(ts, p).value))

\* parse_link from the closing bracket on
LinkTail(ts, p, text_nodes, ev) ==
    LET close == Expect(ts, p, "RBRACKET") IN
    IF ~close.ok THEN Raise(close.pos, ev)
    ELSE IF TSMatch(ts, close.pos, "LPAREN") THEN
      LET u == UrlLoop(ts, TSNext(ts, close.pos), <<>>)
          after == IF TSMatch(ts, u.pos, "RPAREN") THEN TSNext(ts, u.pos) ELSE u.pos
      IN  Ok(after, Link(text_nodes, Strip(Concat(u.parts)), None),
             ev \cup {<<"url", close.pos>>})
    ELSE Ok(close.pos, Link(text_nodes, <<>>, None), ev)

\* parse_link: the branch taken for the token at the cursor
LinkDispatch(ts, p) ==
    LET ty == TSPeek(ts, p).type IN
    CASE ty = "DOUBLE_STAR" -> ParseBold(ts, p)
      [] ty \in {"STAR", "UNDERSCORE"} -> ParseItalic(ts, p)
      [] ty = "BACKTICK" -> ParseCodespan(ts, p)
      [] OTHER -> TokenAsText(ts, p)

LinkStep(ts, text_nodes, ev, sub) ==
    IF ~sub.ok THEN Raise(sub.pos, ev \cup sub.ev)
    ELSE LinkTextLoop(ts, sub.pos, Append(text_nodes, sub.val), ev \cup sub.ev)

\* the text loop of parse_link
LinkTextLoop(ts, p, text_nodes, ev) ==
    IF TSEof(ts, p) \/ TSMatch(ts, p, "RBRACKET") THEN LinkTail(ts, p, text_nodes, ev)
    ELSE LinkStep(ts, text_nodes, ev, LinkDispatch(ts, p))

\* parse_link after its expect(LBRACKET)
LinkOpened(ts, p, open) ==
    IF ~open.ok THEN Raise(open.pos, {<<"link", p>>})
    ELSE LinkTextLoop(ts, open.pos, <<>>, {<<"link", p>>})

\* Parser.parse_link
ParseLink(ts, p) == LinkOpened(ts, p, Expect(ts, p, "LBRACKET"))

----------------------------------------------------------------------------
(* Block parsing *)

\* Parser._is_hr_line: its result and the cursor it leaves
IsHrLine(ts, p) ==
    LET e == TypeRunEnd(ts, p, {"DASH", "STAR"})
        count_dash == Cardinality({k \in (p + 1)..e : ts[k].type = "DASH"})
        count_star == Cardinality({k \in (p + 1)..e : ts[k].type = "STAR"})
    IN  IF count_dash >= 3 \/ count_star >= 3
        THEN [result |-> TRUE, pos |-> e]
        ELSE [result |-> FALSE, pos |-> p]

RECURSIVE LineEnd(_, _)
\* the cursor at the next NEWLINE or EOF token
LineEnd(ts, p) ==
    IF ~TSEof(ts, p) /\ ~TSMatch(ts, p, "NEWLINE") THEN LineEnd(ts, TSNext(ts, p)) ELSE p

\* "if self.tokens.match(NEWLINE): self.tokens.next()"
SkipNewline(ts, p) == IF TSMatch(ts, p, "NEWLINE") THEN TSNext(ts, p) ELSE p

\* "if self.tokens.match(SPACE): self.tokens.next()"
SkipSpace(ts, p) == IF TSMatch(ts, p, "SPACE") THEN TSNext(ts, p) ELSE p

\* the values of the tokens at cursors a .. b-1, concatenated
ValuesBetween(ts, a, b) == Concat([k \in 1..(b - a) |-> ts[a + k].value])

\* parse_heading after its parse_inline_until
HeadingDone(ts, level, r) ==
    IF ~r.ok THEN r ELSE Ok(SkipNewline(ts, r.pos), Heading(level, r.val), r.ev)

\* Parser.parse_heading
ParseHeading(ts, p) ==
    LET e == TypeRunEnd(ts, p, {"HASH"})
    IN  HeadingDone(ts, e - p, ParseInlineUntil(ts, SkipSpace(ts, e), "NEWLINE"))

RECURSIVE CodeLoop(_, _, _, _)
\* the code-collecting loop of parse_fenced_codeblock
CodeLoop(ts, p, fence_count, code_parts) ==
    IF TSEof(ts, p) THEN [pos |-> p, parts |-> code_parts]
    ELSE IF IsCloseFence(ts, p, fence_count)
    THEN [pos |-> SkipNewline(ts, LineEnd(ts, p + fence_count)), parts |-> code_parts]
    ELSE CodeLoop(ts, TSNext(ts, p), fence_count, Append(code_parts, TSPeek(ts, p).value))

\* Parser.parse_fenced_codeblock
ParseFencedCodeblock(ts, p) ==
    LET e == TypeRunEnd(ts, p, {"BACKTICK"})
        fence_count == e - p
        le == LineEnd(ts, e)
        joined == Strip(ValuesBetween(ts, e, le))
        lang == IF joined = <<>> THEN None ELSE joined
        c == CodeLoop(ts, SkipNewline(ts, le), fence_count, <<>>)
    IN  Ok(c.pos, CodeBlock(Concat(c.parts), lang), {})

\* a TEXT token whose value starts with '>'
IsQuoteToken(tok) == tok.type = "TEXT" /\ StartsWith(tok.value, <<">">>)

RECURSIVE QuoteLines(_, _, _)
\* the inner loop of parse_blockquote: the cursor after it and buffer_lines
QuoteLines(ts, p, buffer_lines) ==
    IF TSEof(ts, p) \/ ~IsQuoteToken(TSPeek(ts, p))
    THEN [pos |-> p, lines |-> buffer_lines]
    ELSE LET stripped == Tail(TSPeek(ts, p).value)
             line == IF StartsWith(stripped, <<SP>>) THEN Tail(stripped) ELSE stripped
         IN  QuoteLines(ts, SkipNewline(ts, TSNext(ts, p)), Append(buffer_lines, line))

RECURSIVE JoinLines(_)
\* "\n".join(buffer_lines)
JoinLines(lines) ==
    IF lines = <<>> THEN <<>>
    ELSE IF Len(lines) = 1 THEN lines[1]
    ELSE lines[1] \o <<NL>> \o JoinLines(Tail(lines))

RECURSIVE BlockquoteLoop(_, _, _, _)

\* parse_blockquote: children.append(Paragraph(inlines)) and continue
BlockquoteStep(ts, p, children, ev, r) ==
    IF ~r.ok THEN Raise(p, ev)
    ELSE BlockquoteLoop(ts, p, Append(children, Paragraph(r.val)), ev)

\* parse_blockquote: the inline parser run on the joined lines
BlockquoteLines(ts, children, ev, q) ==
    BlockquoteStep(ts, q.pos, children, ev,
                   ParseInlineUntil(Tokenize(JoinLines(q.lines)), 0, "EOF"))

\* the outer loop of parse_blockquote
BlockquoteLoop(ts, p, children, ev) ==
    IF TSEof(ts, p) \/ ~IsQuoteToken(TSPeek(ts, p)) THEN Ok(p, BlockQuote(children), ev)
    ELSE BlockquoteLines(ts, children, ev, QuoteLines(ts, p, <<>>))

\* Parser.parse_blockquote
ParseBlockquote(ts, p) == BlockquoteLoop(ts, p, <<>>, {})

RECURSIVE ListLoop(_, _, _, _, _)

\* parse_list that leaves the newline after an item unconsumed
ListStepKeepsNewline(ts, items, ordered, ev, r) ==
    IF ~r.ok THEN Raise(r.pos, ev \cup r.ev)
    ELSE ListLoop(ts, r.pos, Append(items, ListItem(<<Paragraph(r.val)>>)), ordered,
                  ev \cup r.ev)

\* parse_list: items.append(ListItem(...)) and continue
ListStep(ts, items, ordered, ev, r) ==
    IF ~r.ok THEN Raise(r.pos, ev \cup r.ev)
    ELSE ListLoop(ts, SkipNewline(ts, r.pos),
                  Append(items, ListItem(<<Paragraph(r.val)>>)), ordered, ev \cup r.ev)

\* the loop of parse_list
ListLoop(ts, p, items, ordered, ev) ==
    IF TSEof(ts, p) \/ TSPeek(ts, p).type \notin {"DASH", "NUMBER"}
    THEN Ok(p, ListBlock(items, ordered), ev)
    ELSE ListStep(ts, items, ordered \/ TSMatch(ts, p, "NUMBER"), ev,
                  ParseInlineUntil(ts, SkipSpace(ts, TSNext(ts, p)), "NEWLINE"))

\* Parser.parse_list
ParseList(ts, p) == ListLoop(ts, p, <<>>, FALSE, {})

\* Parser._is_block_start_lookahead
IsBlockStartLookahead(ts, p) ==
    LET tok == TSPeek(ts, p) IN
    IF tok.type \in {"HASH", "DASH", "NUMBER", "BACKTICK"}
    THEN (IF tok.type = "BACKTICK" THEN IsOpenFence(ts, p) ELSE TRUE)
    ELSE IF IsQuoteToken(tok) THEN TRUE
    ELSE IF tok.type = "TEXT" /\ StartsWith(Strip(tok.value), <<"-", "-", "-">>) THEN TRUE
    ELSE FALSE

RECURSIVE ParagraphLoop(_, _, _, _)

\* parse_paragraph: after parse_inline_until returned part
ParagraphStep(ts, inlines, ev, part) ==
    IF ~part.ok THEN Raise(part.pos, ev \cup part.ev)
    ELSE IF TSMatch(ts, part.pos, "NEWLINE") THEN
      IF TSMatch(ts, TSNext(ts, part.pos), "NEWLINE")
      THEN Ok(TSNext(ts, part.pos), Paragraph(inlines \o part.val), ev \cup part.ev)
      ELSE ParagraphLoop(ts, TSNext(ts, part.pos),
                         Append(inlines \o part.val, Text(<<SP>>)), ev \cup part.ev)
    ELSE Ok(part.pos, Paragraph(inlines \o part.val), ev \cup part.ev)

\* the loop of parse_paragraph
ParagraphLoop(ts, p, inlines, ev) ==
    IF TSEof(ts, p) \/ IsBlockStartLookahead(ts, p) THEN Ok(p, Paragraph(inlines), ev)
    ELSE ParagraphStep(ts, inlines, ev, ParseInlineUntil(ts, p, "NEWLINE"))

\* Parser.parse_paragraph
ParseParagraph(ts, p) == ParagraphLoop(ts, p, <<>>, {})

\* parse_block after the heading, fence and blockquote branches
BlockAfterHrProbe(ts, tok, hr) ==
    IF hr.result THEN Ok(SkipNewline(ts, LineEnd(ts, hr.pos)), HorizontalRule, {})
    ELSE IF tok.type \in {"DASH", "NUMBER"} THEN ParseList(ts, hr.pos)
    ELSE ParseParagraph(ts, hr.pos)

\* Parser.parse_block
ParseBlock(ts, p) ==
    IF TSMatch(ts, p, "HASH") THEN ParseHeading(ts, p)
    ELSE IF TSMatch(ts, p, "BACKTICK") /\ IsOpenFence(ts, p)
    THEN ParseFencedCodeblock(ts, p)
    ELSE IF IsQuoteToken(TSPeek(ts, p)) THEN ParseBlockquote(ts, p)
    ELSE BlockAfterHrProbe(ts, TSPeek(ts, p), IsHrLine(ts, p))

\* "while self.tokens.match(NEWLINE): self.tokens.next()"
SkipNewlines(ts, p) == TypeRunEnd(ts, p, {"NEWLINE"})

RECURSIVE ParseLoop(_, _, _, _)

\* parse: blocks.append(block) and the newlines after it
ParseStep(ts, blocks, ev, b) ==
    IF ~b.ok THEN Raise(b.pos, ev \cup b.ev)
    ELSE ParseLoop(ts, SkipNewlines(ts, b.pos), Append(blocks, b.val), ev \cup b.ev)

\* the block loop of Parser.parse
ParseLoop(ts, p, blocks, ev) ==
    IF TSEof(ts, p) THEN Ok(p, Document(blocks), ev)
    ELSE ParseStep(ts, blocks, ev, ParseBlock(ts, p))

\* Parser.parse
Parse(ts) == ParseLoop(ts, SkipNewlines(ts, 0), <<>>, {})

\* parse_markdown
ParseMarkdown(txt) == Parse(Tokenize(txt))

----------------------------------------------------------------------------
\* the parts of the state a specification does not use stay as constructed
InstanceIdle == renderer = <<>> /\ renders = 0
ProbeIdle == tpos = 0 /\ probe = <<>>
ParseIdle == pc = "idle" /\ doc = <<>> /\ dict = <<>> /\ restored = <<>>
LexIdle == pos = 0 /\ tokens = <<>> /\ prevPos = 0 /\ calls = 0
RenderIdle == html = <<>> /\ emits = <<>>
ThreadIdle == lock = "free" /\ thr = <<>> /\ started = 0 /\ contended = FALSE
ServiceIdle == store = <<>> /\ perfCount = 0 /\ svcOp = <<>> /\ first = <<>>
ManagerIdle == enabled = FALSE /\ mgrOp = <<>> /\ stored = <<>>
CacheIdle ==
    /\ strategy = "none" /\ capacity = 0 /\ cache = <<>> /\ order = <<>>
    /\ hits = 0 /\ misses = 0 /\ lastOp = <<>> /\ gets = 0 /\ lastSet = <<>>
    /\ evicted = {} /\ clock = 0 /\ lastTouch = <<>>

----------------------------------------------------------------------------
(* Specification LexSpec: Lexer.tokenize run one next_token call at a time *)

LexAlphabet ==
    {"a", "1", ".", NL, SP, "#", "-", "*", "_", BT, "[", "]", "(", ")"}

LexInit ==
    /\ text \in StringsUpTo(LexAlphabet, MaxLexLen)
    /\ pos = 0
    /\ tokens = <<>>
    /\ prevPos = 0
    /\ calls = 0
    /\ ParseIdle
    /\ CacheIdle
    /\ ManagerIdle
    /\ ServiceIdle
    /\ ThreadIdle
    /\ RenderIdle
    /\ ProbeIdle
    /\ InstanceIdle

LexRunning == IF tokens = <<>> THEN TRUE ELSE tokens[Len(tokens)].type # "EOF"

\* one iteration of the while loop of Lexer.tokenize
TokenizeStep ==
    /\ LexRunning
    /\ LET r == NextToken(text, pos)
       IN  /\ tokens' = Append(tokens, r.tok)
           /\ pos' = r.pos
    /\ prevPos' = pos
    /\ calls' = calls + 1
    /\ UNCHANGED <<text, parseVars, cacheVars, cacheHist, mgrVars, svcVars, thrVars, rndVars, prbVars, instVars>>

LexNext == TokenizeStep

LexSpec == LexInit /\ [][LexNext]_vars

\* C1: Lexer.tokenize of mdparser/markdown_parser/lexer.py terminates: every
\* next_token call that does not return EOF advances the cursor by at least
\* one character (so at most len(text) + 1 calls are made, the cursor never
\* passing the end), and the list holds exactly one EOF token, its last element.
C1_TokenizeTotal ==
    /\ pos <= Len(text)
    /\ Len(tokens) = calls
    /\ calls <= Len(text) + 1
    /\ (tokens # <<>> /\ tokens[Len(tokens)].type # "EOF") => pos > prevPos
    /\ \A k \in 1..Len(tokens) : tokens[k].type = "EOF" => k = Len(tokens)
    /\ ~LexRunning =>
          Cardinality({k \in 1..Len(tokens) : tokens[k].type = "EOF"}) = 1

\* a finished run over a text with a number marker, a space run and plain text
C1_Witness ==
    /\ ~LexRunning
    /\ Len(tokens) >= 4
    /\ \E k \in 1..Len(tokens) : tokens[k].type = "NUMBER"
    /\ \E k \in 1..Len(tokens) : tokens[k].type = "TEXT"
    /\ \E k \in 1..Len(tokens) : tokens[k].type = "SPACE"

----------------------------------------------------------------------------
(* mdparser/markdown_parser/ast_nodes.py: to_dict / from_dict.  A dict is a *)
(* record keyed by the dict's keys; its "type" key names the node class.   *)

\* data.get(key, default)
Get(data, key, default) == IF key \in DOMAIN data THEN data[key] ELSE default

\* what a from_dict that raised ValueError leaves
ValueError == [node |-> "ValueError"]

RECURSIVE ToDict(_)
\* Node.to_dict of every node class
ToDict(n) ==
    LET All(ns) == [k \in 1..Len(ns) |-> ToDict(ns[k])] IN
    CASE n.node = "Text" -> [type |-> "Text", text |-> n.text]
      [] n.node = "CodeSpan" -> [type |-> "CodeSpan", code |-> n.code]
      [] n.node = "Bold" -> [type |-> "Bold", children |-> All(n.children)]
      [] n.node = "Italic" -> [type |-> "Italic", children |-> All(n.children)]
      [] n.node = "Link" ->
           [type |-> "Link", text_nodes |-> All(n.text_nodes), url |-> n.url,
            title |-> n.title]
      [] n.node = "Paragraph" -> [type |-> "Paragraph", inlines |-> All(n.inlines)]
      [] n.node = "Heading" ->
           [type |-> "Heading", level |-> n.level, inlines |-> All(n.inlines)]
      [] n.node = "CodeBlock" ->
           [type |-> "CodeBlock", code |-> n.code, language |-> n.language]
      [] n.node = "BlockQuote" -> [type |-> "BlockQuote", children |-> All(n.children)]
      [] n.node = "ListItem" -> [type |-> "ListItem", children |-> All(n.children)]
      [] n.node = "ListBlock" ->
           [type |-> "ListBlock", ordered |-> n.ordered, items |-> All(n.items)]
      [] n.node = "HorizontalRule" -> [type |-> "HorizontalRule"]
      [] n.node = "Document" -> [type |-> "Document", blocks |-> All(n.blocks)]

_NODE_TYPE_MAP ==
    {"Text", "CodeSpan", "Bold", "Italic", "Link", "Paragraph", "Heading",
     "CodeBlock", "BlockQuote", "ListItem", "ListBlock", "HorizontalRule", "Document"}

RECURSIVE NodeFromDict(_), NodesFromDicts(_), HeadingFromDict(_), LinkFromDict(_),
          ListBlockFromDict(_), DocumentFromDict(_)

\* [_node_from_dict(c) for c in ...]
NodesFromDicts(ds) == [k \in 1..Len(ds) |-> NodeFromDict(ds[k])]

\* a list comprehension over _node_from_dict raised ValueError
Failed(ns) == \E k \in 1..Len(ns) : ns[k] = ValueError

\* a Heading.from_dict that does not read the stored level
HeadingFromDictDefaultLevel(data) ==
    LET inlines == NodesFromDicts(Get(data, "inlines", <<>>))
    IN  IF Failed(inlines) THEN ValueError ELSE Heading(1, inlines)

\* Heading.from_dict
HeadingFromDict(data) ==
    LET inlines == NodesFromDicts(Get(data, "inlines", <<>>))
    IN  IF Failed(inlines) THEN ValueError
        ELSE Heading(Get(data, "level", 1), inlines)

\* Link.from_dict
LinkFromDict(data) ==
    LET nodes == NodesFromDicts(Get(data, "text_nodes", <<>>))
    IN  IF Failed(nodes) THEN ValueError
        ELSE Link(nodes, Get(data, "url", <<>>), Get(data, "title", None))

\* ListBlock.from_dict
ListBlockFromDict(data) ==
    LET items == NodesFromDicts(Get(data, "items", <<>>))
        wrapped == [k \in 1..Len(items) |->
                      IF items[k].node = "ListItem" THEN items[k]
                      ELSE ListItem(<<items[k]>>)]
    IN  IF Failed(items) THEN ValueError
        ELSE ListBlock(wrapped, Get(data, "ordered", FALSE))

\* Document.from_dict
DocumentFromDict(data) ==
    LET blocks == NodesFromDicts(Get(data, "blocks", <<>>))
    IN  IF Failed(blocks) THEN ValueError ELSE Document(blocks)

\* _node_from_dict, with the from_dict of the classes it dispatches to
NodeFromDict(data) ==
    LET t == Get(data, "type", "")
        Children(key) == NodesFromDicts(Get(data, key, <<>>))
    IN  IF t = "" \/ t \notin _NODE_TYPE_MAP THEN ValueError
        ELSE CASE t = "Text" -> Text(data.text)
               [] t = "CodeSpan" -> CodeSpan(data.code)
               [] t = "Bold" ->
                    IF Failed(Children("children")) THEN ValueError
                    ELSE Bold(Children("children"))
               [] t = "Italic" ->
                    IF Failed(Children("children")) THEN ValueError
                    ELSE Italic(Children("children"))
               [] t = "Link" -> LinkFromDict(data)
               [] t = "Paragraph" ->
                    IF Failed(Children("inlines")) THEN ValueError
                    ELSE Paragraph(Children("inlines"))
               [] t = "Heading" -> HeadingFromDict(data)
               [] t = "CodeBlock" ->
                    CodeBlock(Get(data, "code", <<>>), Get(data, "language", None))
               [] t = "BlockQuote" ->
                    IF Failed(Children("children")) THEN ValueError
                    ELSE BlockQuote(Children("children"))
               [] t = "ListItem" ->
                    IF Failed(Children("children")) THEN ValueError
                    ELSE ListItem(Children("children"))
               [] t = "ListBlock" -> ListBlockFromDict(data)
               [] t = "HorizontalRule" -> HorizontalRule
               [] t = "Document" -> DocumentFromDict(data)

----------------------------------------------------------------------------
(* Specification ParseSpec: a caller hands a text to parse_markdown, then   *)
(* serializes the Document with to_dict and restores it with from_dict      *)

ParseAlphabet ==
    {"a", "1", ".", NL, SP, "#", "-", "*", "_", BT, "[", "]", "(", ")", ">"}

\* pieces of markup that longer texts are composed of
Pieces ==
    { <<"-", SP, "a", NL>>, <<"1", ".", SP, "b", NL>>, <<"#", "#", SP>>,
      <<">", "a", NL>>, <<BT, BT, BT, "a", NL>>, <<BT, BT, BT>>, <<"b", NL>>,
      <<NL>>, <<"*", "*">>, <<"*">>, <<BT>>, <<"[", "a", "]">>, <<"(", "b", ")">>,
      <<"-", "-", "-">>, <<"a", SP, "b">>, <<"_">> }

\* the texts made of at most n pieces
ComposedTexts(n) == {Concat(ps) : ps \in StringsUpTo(Pieces, n)}

\* the texts a caller passes: every short text, and the composed ones
ParseTexts == StringsUpTo(ParseAlphabet, MaxParseLen) \cup ComposedTexts(MaxPieces)

ParseInit ==
    /\ text \in ParseTexts
    /\ LexIdle
    /\ pc = "start"
    /\ doc = <<>>
    /\ dict = <<>>
    /\ restored = <<>>
    /\ CacheIdle
    /\ ManagerIdle
    /\ ServiceIdle
    /\ ThreadIdle
    /\ RenderIdle
    /\ ProbeIdle
    /\ InstanceIdle

\* doc = parse_markdown(text)
ParseMarkdownCall ==
    /\ pc = "start"
    /\ doc' = ParseMarkdown(text)
    /\ pc' = IF doc'.ok THEN "parsed" ELSE "raised"
    /\ UNCHANGED <<text, lexVars, dict, restored, cacheVars, cacheHist, mgrVars, svcVars, thrVars, rndVars, prbVars, instVars>>

\* dict = doc.to_dict()
ToDictCall ==
    /\ pc = "parsed"
    /\ dict' = ToDict(doc.val)
    /\ pc' = "serialized"
    /\ UNCHANGED <<lexVars, doc, restored, cacheVars, cacheHist, mgrVars, svcVars, thrVars, rndVars, prbVars, instVars>>

\* restored = Document.from_dict(dict)
FromDictCall ==
    /\ pc = "serialized"
    /\ restored' = DocumentFromDict(dict)
    /\ pc' = "restored"
    /\ UNCHANGED <<lexVars, doc, dict, cacheVars, cacheHist, mgrVars, svcVars, thrVars, rndVars, prbVars, instVars>>

ParseNext == ParseMarkdownCall \/ ToDictCall \/ FromDictCall

ParseSpec == ParseInit /\ [][ParseNext]_vars

\* no token of type ttype after the token at cursor q
NoTokenAfter(ts, q, ttype) == \A k \in (q + 2)..Len(ts) : ts[k].type # ttype

\* parse_link was entered at a '[' that no ']' token follows
OpenedUnclosedLink ==
    \E e \in doc.ev : e[1] = "link" /\ NoTokenAfter(Tokenize(text), e[2], "RBRACKET")

\* C3: when inline parsing opens a link at a '[' token with no ']' token
\* after it before end of input, parse_markdown raises ParseError and the
\* error reaches the caller (no Document is returned).
C3_UnclosedBracketRaises ==
    (pc # "start" /\ OpenedUnclosedLink) => (pc = "raised" /\ ~doc.ok)

\* an unclosed link opened after other content, with a newline after the '['
C3_Witness ==
    /\ pc = "raised"
    /\ OpenedUnclosedLink
    /\ \E k \in 2..Len(text) : text[k] = "[" /\ \E j \in (k + 1)..Len(text) : text[j] = NL

\* C4: parse_markdown raises only for an unterminated link bracket: whenever
\* it raises, the token sequence has a '[' token with no ']' token after it.
C4_OnlyUnclosedBracketRaises ==
    pc = "raised" =>
        \E q \in 0..(Len(Tokenize(text)) - 1) :
            /\ Tokenize(text)[q + 1].type = "LBRACKET"
            /\ NoTokenAfter(Tokenize(text), q, "RBRACKET")

\* parse_link consumed a '(' opening a url portion that no ')' token follows
OpenedUnclosedUrl ==
    \E e \in doc.ev : e[1] = "url" /\ NoTokenAfter(Tokenize(text), e[2], "RPAREN")

\* C5: a link whose text is closed by ']' and followed by '(' but whose url
\* is never closed by ')' makes parse_markdown raise ParseError.
C5_UnclosedUrlRaises ==
    (pc # "start" /\ OpenedUnclosedUrl) => pc = "raised"

\* C6: Document.from_dict(t.to_dict()) equals t, for every Document t that
\* parse_markdown returns: same classes, field values and child order.
C6_RoundTrip ==
    pc = "restored" => (restored = doc.val /\ restored.node = "Document")

\* a restored document with a level-2 heading that holds a link with a url
C6_Witness ==
    /\ pc = "restored"
    /\ \E k \in 1..Len(restored.blocks) :
          LET b == restored.blocks[k] IN
          /\ b.node = "Heading"
          /\ b.level = 2
          /\ b.inlines # <<>>
          /\ b.inlines[1].node = "Link"
          /\ b.inlines[1].url = <<"b">>
          /\ b.inlines[1].text_nodes = <<Text(<<"a">>)>>

----------------------------------------------------------------------------
(* mdparser/markdown_parser/cache.py: LRUCache and LFUCache.  self.cache is *)
(* the sequence of the dict's entries in insertion order: [key, value] for *)
(* LRUCache, [key, value, freq] for LFUCache.                              *)

Keys == {"k1", "k2", "k3"}
Values == {<<"a">>, <<"b">>}

\* key in self.cache
HasKey(c, key) == \E i \in 1..Len(c) : c[i].key = key

IndexOf(c, key) == CHOOSE i \in 1..Len(c) : c[i].key = key

\* self.cache.get(key): None when the key is absent
Lookup(c, key) == IF HasKey(c, key) THEN c[IndexOf(c, key)].value ELSE None

KeysOf(c) == {c[i].key : i \in 1..Len(c)}

\* del self.cache[key]
DictDelete(c, key) == SelectSeq(c, LAMBDA e : e.key # key)

\* list.remove(key): drops the first occurrence
ListRemove(l, key) ==
    IF \E i \in 1..Len(l) : l[i] = key
    THEN LET i == CHOOSE i \in 1..Len(l) : l[i] = key /\ \A j \in 1..(i - 1) : l[j] # key
         IN  SubSeq(l, 1, i - 1) \o SubSeq(l, i + 1, Len(l))
    ELSE l

\* a get hit that leaves the order list as it is
TouchKeepsPlace(l, key) == l

\* "self.order.remove(key); self.order.append(key)"
Touch(l, key) == Append(ListRemove(l, key), key)

\* an overwrite that keeps the stored value
DictAssignKeepsOld(c, key, value) == c

\* self.cache[key] = value for a key that is present (its place is kept)
DictAssign(c, key, value) ==
    [i \in 1..Len(c) |-> IF c[i].key = key THEN [c[i] EXCEPT !.value = value] ELSE c[i]]

\* a miss counter that also counts hits
MissesAfterGetCountsAll(found, m) == m + 1

\* self.misses after a get
MissesAfterGet(found, m) == IF found THEN m ELSE m + 1

\* self.hits after a get
HitsAfterGet(found, h) == IF found THEN h + 1 ELSE h

\* an eviction that takes the most frequently used entry
MostFrequentKey(c) ==
    LET i == CHOOSE i \in 1..Len(c) :
                 /\ \A j \in 1..Len(c) : c[j].freq <= c[i].freq
                 /\ \A j \in 1..(i - 1) : c[j].freq < c[i].freq
    IN  c[i].key

\* min(self.cache, key=lambda k: self.cache[k][1]): the first key, in the
\* dict's order, whose frequency is minimal
LeastFrequentKey(c) ==
    LET i == CHOOSE i \in 1..Len(c) :
                 /\ \A j \in 1..Len(c) : c[i].freq <= c[j].freq
                 /\ \A j \in 1..(i - 1) : c[j].freq > c[i].freq
    IN  c[i].key

\* the record of a call: ret is what get returned, removed the key an
\* eviction deleted (None when there was none), raised whether it raised
Op(name, key, value, ret, removed, raised) ==
    [op |-> name, key |-> key, value |-> value, ret |-> ret, removed |-> removed,
     raised |-> raised]

\* the history after a get(key) that returned ret
HistAfterGet(key, ret, found) ==
    /\ lastOp' = Op("get", key, None, ret, None, FALSE)
    /\ gets' = gets + 1
    /\ clock' = clock + 1
    /\ lastTouch' = IF found THEN [lastTouch EXCEPT ![key] = clock + 1] ELSE lastTouch
    /\ UNCHANGED <<lastSet, evicted>>

\* the history after a set(key, value) that deleted the key removed
HistAfterSet(key, value, removed) ==
    /\ lastOp' = Op("set", key, value, None, removed, FALSE)
    /\ clock' = clock + 1
    /\ lastTouch' = [lastTouch EXCEPT ![key] = clock + 1]
    /\ lastSet' = [lastSet EXCEPT ![key] = value]
    /\ evicted' = IF removed = None THEN evicted \ {key}
                  ELSE (evicted \ {key}) \cup {removed[1]}
    /\ UNCHANGED gets

\* the history after a clear()
HistAfterClear ==
    /\ lastOp' = Op("clear", None, None, None, None, FALSE)
    /\ clock' = clock + 1
    /\ lastSet' = [k \in DOMAIN lastSet |-> None]
    /\ evicted' = {}
    /\ UNCHANGED <<gets, lastTouch>>

\* LRUCache.get(key)
LRUGet(key) ==
    /\ strategy = "LRU"
    /\ clock < MaxOps
    /\ hits' = HitsAfterGet(HasKey(cache, key), hits)
    /\ misses' = MissesAfterGet(HasKey(cache, key), misses)
    /\ order' = IF HasKey(cache, key) THEN Touch(order, key) ELSE order
    /\ HistAfterGet(key, Lookup(cache, key), HasKey(cache, key))
    /\ UNCHANGED <<strategy, capacity, cache>>

\* LRUCache.set(key, value)
LRUSet(key, value) ==
    /\ strategy = "LRU"
    /\ clock < MaxOps
    /\ IF HasKey(cache, key)
       THEN /\ order' = Touch(order, key)
            /\ cache' = DictAssign(cache, key, value)
            /\ HistAfterSet(key, value, None)
       ELSE LET inserted == Append(cache, [key |-> key, value |-> value])
                appended == Append(order, key)
            IN  IF Len(inserted) > capacity
                THEN /\ order' = Tail(appended)
                     /\ cache' = DictDelete(inserted, Head(appended))
                     /\ HistAfterSet(key, value, <<Head(appended)>>)
                ELSE /\ order' = appended
                     /\ cache' = inserted
                     /\ HistAfterSet(key, value, None)
    /\ UNCHANGED <<strategy, capacity, hits, misses>>

\* LRUCache.clear()
LRUClear ==
    /\ strategy = "LRU"
    /\ clock < MaxOps
    /\ cache' = <<>>
    /\ order' = <<>>
    /\ HistAfterClear
    /\ UNCHANGED <<strategy, capacity, hits, misses>>

\* LFUCache.get(key)
LFUGet(key) ==
    /\ strategy = "LFU"
    /\ clock < MaxOps
    /\ hits' = HitsAfterGet(HasKey(cache, key), hits)
    /\ misses' = MissesAfterGet(HasKey(cache, key), misses)
    /\ cache' = [i \in 1..Len(cache) |->
                   IF cache[i].key = key
                   THEN [cache[i] EXCEPT !.freq = cache[i].freq + 1] ELSE cache[i]]
    /\ HistAfterGet(key, Lookup(cache, key), HasKey(cache, key))
    /\ UNCHANGED <<strategy, capacity, order>>

\* LFUCache.set(key, value)
LFUSet(key, value) ==
    /\ strategy = "LFU"
    /\ clock < MaxOps
    /\ IF HasKey(cache, key)
       THEN /\ cache' = [i \in 1..Len(cache) |->
                           IF cache[i].key = key
                           THEN [key |-> key, value |-> value, freq |-> cache[i].freq + 1]
                           ELSE cache[i]]
            /\ HistAfterSet(key, value, None)
       ELSE IF Len(cache) >= capacity
       THEN IF cache = <<>>
            THEN \* min() of an empty dict raises ValueError: nothing is stored
                 /\ lastOp' = Op("set", key, value, None, None, TRUE)
                 /\ clock' = clock + 1
                 /\ UNCHANGED <<cache, gets, lastSet, evicted, lastTouch>>
            ELSE /\ cache' = Append(DictDelete(cache, LeastFrequentKey(cache)),
                                    [key |-> key, value |-> value, freq |-> 1])
                 /\ HistAfterSet(key, value, <<LeastFrequentKey(cache)>>)
       ELSE /\ cache' = Append(cache, [key |-> key, value |-> value, freq |-> 1])
            /\ HistAfterSet(key, value, None)
    /\ UNCHANGED <<strategy, capacity, order, hits, misses>>

\* LFUCache.clear()
LFUClear ==
    /\ strategy = "LFU"
    /\ clock < MaxOps
    /\ cache' = <<>>
    /\ HistAfterClear
    /\ UNCHANGED <<strategy, capacity, order, hits, misses>>

----------------------------------------------------------------------------
(* Specification CacheSpec: a caller constructs an LRUCache or an LFUCache  *)
(* and calls get, set and clear on it, at most MaxOps times                *)

CacheInit ==
    /\ strategy \in {"LRU", "LFU"}
    /\ capacity \in 0..MaxCapacity
    /\ cache = <<>>
    /\ order = <<>>
    /\ hits = 0
    /\ misses = 0
    /\ lastOp = Op("init", None, None, None, None, FALSE)
    /\ gets = 0
    /\ lastSet = [k \in Keys |-> None]
    /\ evicted = {}
    /\ clock = 0
    /\ lastTouch = [k \in Keys |-> 0]
    /\ text = <<>>
    /\ LexIdle
    /\ ParseIdle
    /\ ManagerIdle
    /\ ServiceIdle
    /\ ThreadIdle
    /\ RenderIdle
    /\ ProbeIdle
    /\ InstanceIdle

CacheNext ==
    \/ \E key \in Keys : LRUGet(key)
    \/ \E key \in Keys, value \in Values : LRUSet(key, value)
    \/ LRUClear
    \/ \E key \in Keys : LFUGet(key)
    \/ \E key \in Keys, value \in Values : LFUSet(key, value)
    \/ LFUClear

CacheStep == CacheNext /\ UNCHANGED <<text, lexVars, parseVars, mgrVars, svcVars, thrVars, rndVars, prbVars, instVars>>

CacheSpec == CacheInit /\ [][CacheStep]_vars

\* what get(k) has to return: the value of the latest set of k, unless k was
\* evicted or the cache was cleared since then
Expected(k) == IF lastSet[k] # None /\ k \notin evicted THEN lastSet[k] ELSE None

\* C7: in an LRUCache or LFUCache of capacity >= 1, a get(k) returns the
\* value of the most recent set(k, v) as long as k has not been evicted and
\* the cache has not been cleared since, and returns absent otherwise; it
\* never returns any other value, an eviction is the work of a set of
\* another key, and after clear() every key is absent.
C7_GetReturnsLastSet ==
    (strategy \in {"LRU", "LFU"} /\ capacity >= 1) =>
        /\ lastOp.op = "get" => lastOp.ret = Expected(lastOp.key)
        /\ \A k \in Keys : Lookup(cache, k) = Expected(k)
        /\ lastOp.removed # None =>
               lastOp.op = "set" /\ lastOp.removed[1] # lastOp.key
        /\ lastOp.op = "clear" => \A k \in Keys : Lookup(cache, k) = None

\* a get has just returned the value last set for its key, in a cache that
\* has evicted a key since
C7_Witness ==
    /\ capacity >= 1
    /\ lastOp.op = "get"
    /\ lastOp.ret # None
    /\ lastOp.ret = lastSet[lastOp.key]
    /\ evicted # {}

\* the order list holds exactly the keys of the map, each once, least
\* recently touched first
TouchOrdered ==
    /\ Len(order) = Len(cache)
    /\ {order[i] : i \in 1..Len(order)} = KeysOf(cache)
    /\ \A i, j \in 1..Len(order) : i < j => lastTouch[order[i]] < lastTouch[order[j]]

\* a call of the LRUCache that removes keys is a clear, or a set of a new
\* key that takes the size over the capacity and removes exactly the least
\* recently touched key
LRURemoval ==
    \/ lastOp'.op = "clear"
    \/ /\ lastOp'.op = "set"
       /\ lastOp'.key \notin KeysOf(cache)
       /\ Len(cache) + 1 > capacity
       /\ lastOp'.removed # None
       /\ LET r == lastOp'.removed[1]
              present == KeysOf(cache) \cup {lastOp'.key}
          IN  /\ r \in present
              /\ \A k \in present : lastTouch'[r] <= lastTouch'[k]
              /\ KeysOf(cache') = present \ {r}

\* C8: an LRUCache keeps its keys ordered by their last touch (get hit or
\* set); a set of a new key that takes the size over the capacity evicts
\* exactly the least recently touched key inside that call, and only such a
\* set or a clear removes a key.
C8_LRUOrder ==
    [][strategy = "LRU" =>
        /\ TouchOrdered'
        /\ (lastOp'.op = "set" /\ lastOp'.key \notin KeysOf(cache)
               /\ Len(cache) + 1 > capacity) => LRURemoval
        /\ (KeysOf(cache) \ KeysOf(cache') # {} \/ lastOp'.removed # None) => LRURemoval
    ]_vars

\* a set has just evicted a key from a full LRUCache of capacity 2 in which
\* a get hit had touched the key that stays
C8_Witness ==
    /\ strategy = "LRU"
    /\ capacity = 2
    /\ lastOp.op = "set"
    /\ lastOp.removed # None
    /\ hits >= 1
    /\ Len(order) = 2
    /\ lastTouch[lastOp.removed[1]] < lastTouch[order[1]]

Freq(c, key) == c[IndexOf(c, key)].freq

\* C9: in an LFUCache of capacity >= 1 an entry has frequency 1 when it is
\* inserted, one more after every get hit and every overwriting set of its
\* key, and the same otherwise; a set of a new key into a full cache evicts
\* exactly one entry, whose frequency is minimal among the entries present,
\* and no other get or set removes an entry.
C9_LFUFrequency ==
    [][(strategy = "LFU" /\ capacity >= 1) =>
        LET before == KeysOf(cache)
            after == KeysOf(cache')
            op == lastOp'
            full == op.op = "set" /\ op.key \notin before /\ Len(cache) >= capacity
        IN  /\ \A k \in after \ before :
                   Freq(cache', k) = 1 /\ op.op = "set" /\ op.key = k
            /\ \A k \in before \cap after :
                   Freq(cache', k) =
                       IF op.op \in {"get", "set"} /\ op.key = k
                       THEN Freq(cache, k) + 1 ELSE Freq(cache, k)
            /\ full => \E r \in before :
                           /\ before \ after = {r}
                           /\ \A k \in before : Freq(cache, r) <= Freq(cache, k)
            /\ (op.op \in {"get", "set"} /\ ~full) => before \subseteq after
            /\ op.op = "set" => op.key \in after
    ]_vars

\* a set has just evicted an entry from a full LFUCache of capacity 2 whose
\* other entry, the older one, had been used more often
C9_Witness ==
    /\ strategy = "LFU"
    /\ capacity = 2
    /\ lastOp.op = "set"
    /\ lastOp.removed # None
    /\ Len(cache) = 2
    /\ cache[1].freq >= 2
    /\ cache[2].freq = 1

\* C10: hits + misses is the number of get calls made; a get of a present
\* key adds one to hits only, a get of an absent key adds one to misses
\* only, and set and clear leave both counters as they are.
C10_HitsPlusMisses ==
    [][/\ hits' + misses' = gets'
       /\ lastOp'.op = "get" =>
              IF HasKey(cache, lastOp'.key)
              THEN hits' = hits + 1 /\ misses' = misses
              ELSE hits' = hits /\ misses' = misses + 1
       /\ lastOp'.op \in {"set", "clear"} => hits' = hits /\ misses' = misses
    ]_vars

\* a clear has just run on a cache that has counted hits and misses
C10_Witness ==
    /\ lastOp.op = "clear"
    /\ hits >= 1
    /\ misses >= 1
    /\ hits + misses = gets

----------------------------------------------------------------------------
(* mdparser/markdown_parser/cache.py: NoCache and CacheManager              *)

\* the source texts handed to the manager
ManagerTexts == {<<"a">>, <<"b">>}

Namespaces == {"tokens", "ast", "html"}

\* make_key(text): the SHA-256 hex digest of the text, for the texts of
\* ManagerTexts
make_key(t) ==
    CASE t = <<"a">> -> "ca978112ca1bbdcafac231b39a23dc4da786eff8147c4e72b9807785afee48bb"
      [] t = <<"b">> -> "3e23e8160039594a33894f6564e1b1348bbd7a0088d42c4acb73eeaed59c009d"

\* one prefix for the three kinds of entry
PrefixShared(ns) == "cache:"

\* the key prefixes of get_tokens/set_tokens, get_ast/set_ast, get_html/set_html
Prefix(ns) ==
    CASE ns = "tokens" -> "tokens:"
      [] ns = "ast" -> "ast:"
      [] ns = "html" -> "html:"

\* key = "<namespace>:" + make_key(text)
ManagerKey(ns, t) == Prefix(ns) \o make_key(t)

ManagerKeys == {ManagerKey(ns, t) : ns \in Namespaces, t \in ManagerTexts}

\* a NoCache that reports itself enabled
NoCacheStatsEnabled == [enabled |-> TRUE, hits |-> 0, misses |-> 0, size |-> 0]

\* NoCache.stats()
NoCacheStats == [enabled |-> FALSE, hits |-> 0, misses |-> 0, size |-> 0]

\* LRUCache.stats()
LRUStats ==
    [enabled |-> TRUE, type |-> "LRU", hits |-> hits, misses |-> misses,
     size |-> Len(cache), capacity |-> capacity]

\* LFUCache.stats()
LFUStats ==
    [enabled |-> TRUE, type |-> "LFU", hits |-> hits, misses |-> misses,
     size |-> Len(cache), capacity |-> capacity]

\* self.strategy.stats()
StrategyStats ==
    CASE strategy = "NoCache" -> NoCacheStats
      [] strategy = "LRU" -> LRUStats
      [] strategy = "LFU" -> LFUStats

\* NoCache.get(key): "return None"
NoCacheGet(key) ==
    /\ strategy = "NoCache"
    /\ clock < MaxOps
    /\ HistAfterGet(key, None, FALSE)
    /\ UNCHANGED cacheVars

\* NoCache.set(key, value): "pass"
NoCacheSet(key, value) ==
    /\ strategy = "NoCache"
    /\ clock < MaxOps
    /\ HistAfterSet(key, value, None)
    /\ UNCHANGED cacheVars

\* NoCache.clear(): "pass"
NoCacheClear ==
    /\ strategy = "NoCache"
    /\ clock < MaxOps
    /\ HistAfterClear
    /\ UNCHANGED cacheVars

\* the record of a call on the manager (or, with op "direct", on its strategy)
ManagerOp(name, ns, t, value, ret) ==
    [op |-> name, ns |-> ns, text |-> t, value |-> value, ret |-> ret, n |-> mgrOp.n + 1]

\* self.strategy.get(key)
StrategyGet(key) == NoCacheGet(key) \/ LRUGet(key) \/ LFUGet(key)

\* self.strategy.set(key, value)
StrategySet(key, value) == NoCacheSet(key, value) \/ LRUSet(key, value) \/ LFUSet(key, value)

\* self.strategy.clear()
StrategyClear == NoCacheClear \/ LRUClear \/ LFUClear

\* CacheManager.get_tokens / get_ast / get_html
ManagerGet(ns, t) ==
    /\ mgrOp.n < MaxManagerOps
    /\ IF ~enabled
       THEN /\ mgrOp' = ManagerOp("get", ns, t, None, None)
            /\ UNCHANGED <<cacheVars, cacheHist>>
       ELSE /\ StrategyGet(ManagerKey(ns, t))
            /\ mgrOp' = ManagerOp("get", ns, t, None, lastOp'.ret)
    /\ UNCHANGED <<enabled, stored>>

\* CacheManager.set_tokens / set_ast / set_html
ManagerSet(ns, t, value) ==
    /\ mgrOp.n < MaxManagerOps
    /\ IF ~enabled
       THEN /\ stored' = [stored EXCEPT ![<<ns, t>>] = value]
            /\ UNCHANGED <<cacheVars, cacheHist>>
       ELSE /\ StrategySet(ManagerKey(ns, t), value)
            /\ stored' = IF lastOp'.raised THEN stored
                         ELSE [stored EXCEPT ![<<ns, t>>] = value]
    /\ mgrOp' = ManagerOp("set", ns, t, value, None)
    /\ UNCHANGED enabled

\* CacheManager.clear()
ManagerClear ==
    /\ mgrOp.n < MaxManagerOps
    /\ StrategyClear
    /\ mgrOp' = ManagerOp("clear", "", <<>>, None, None)
    /\ UNCHANGED <<enabled, stored>>

\* CacheManager.stats()
ManagerStats ==
    /\ mgrOp.n < MaxManagerOps
    /\ mgrOp' = ManagerOp("stats", "", <<>>, None, StrategyStats)
    /\ UNCHANGED <<cacheVars, cacheHist, enabled, stored>>

\* a call made on the NoCache object itself, which the manager shares
DirectCall ==
    /\ mgrOp.n < MaxManagerOps
    /\ \/ \E key \in ManagerKeys : NoCacheGet(key)
       \/ \E key \in ManagerKeys, value \in Values : NoCacheSet(key, value)
       \/ NoCacheClear
       \/ /\ strategy = "NoCache"
          /\ lastOp' = Op("stats", None, None, NoCacheStats, None, FALSE)
          /\ UNCHANGED <<cacheVars, gets, lastSet, evicted, clock, lastTouch>>
    /\ mgrOp' = ManagerOp("direct", "", <<>>, None, None)
    /\ UNCHANGED <<enabled, stored>>

----------------------------------------------------------------------------
(* Specification ManagerSpec: a CacheManager is constructed over a NoCache, *)
(* an LRUCache or an LFUCache and is called at most MaxManagerOps times     *)

ManagerInit ==
    /\ strategy \in {"NoCache", "LRU", "LFU"}
    /\ capacity \in IF strategy = "NoCache" THEN {0} ELSE 0..MaxCapacity
    /\ enabled = (strategy # "NoCache")
    /\ cache = <<>>
    /\ order = <<>>
    /\ hits = 0
    /\ misses = 0
    /\ lastOp = Op("init", None, None, None, None, FALSE)
    /\ gets = 0
    /\ lastSet = [k \in ManagerKeys |-> None]
    /\ evicted = {}
    /\ clock = 0
    /\ lastTouch = [k \in ManagerKeys |-> 0]
    /\ mgrOp = [op |-> "init", ns |-> "", text |-> <<>>, value |-> None, ret |-> None, n |-> 0]
    /\ stored = [x \in Namespaces \X ManagerTexts |-> None]
    /\ text = <<>>
    /\ LexIdle
    /\ ParseIdle
    /\ ServiceIdle
    /\ ThreadIdle
    /\ RenderIdle
    /\ ProbeIdle
    /\ InstanceIdle

ManagerNext ==
    \/ \E ns \in Namespaces, t \in ManagerTexts : ManagerGet(ns, t)
    \/ \E ns \in Namespaces, t \in ManagerTexts, value \in Values : ManagerSet(ns, t, value)
    \/ ManagerClear
    \/ ManagerStats
    \/ DirectCall

ManagerStep == ManagerNext /\ UNCHANGED <<text, lexVars, parseVars, svcVars, thrVars, rndVars, prbVars, instVars>>

ManagerSpec == ManagerInit /\ [][ManagerStep]_vars

\* C11: with a NoCache, called directly or through a CacheManager, every get
\* returns absent whatever was set before, nothing is stored, and stats
\* always report enabled=false, hits=0, misses=0, size=0.
C11_DisabledCache ==
    strategy = "NoCache" =>
        /\ ~enabled
        /\ cache = <<>>
        /\ mgrOp.op = "get" => mgrOp.ret = None
        /\ (mgrOp.op = "direct" /\ lastOp.op = "get") => lastOp.ret = None
        /\ mgrOp.op = "stats" =>
               mgrOp.ret = [enabled |-> FALSE, hits |-> 0, misses |-> 0, size |-> 0]
        /\ (mgrOp.op = "direct" /\ lastOp.op = "stats") =>
               lastOp.ret = [enabled |-> FALSE, hits |-> 0, misses |-> 0, size |-> 0]
        /\ StrategyStats = [enabled |-> FALSE, hits |-> 0, misses |-> 0, size |-> 0]

\* a get_X(text) through a manager over NoCache, after a set_X of that text
C11_Witness ==
    /\ strategy = "NoCache"
    /\ mgrOp.op = "get"
    /\ stored[<<mgrOp.ns, mgrOp.text>>] # None
    /\ mgrOp.ret = None

\* C12: the manager's keys for the tokens, tree and html entries of the
\* texts are pairwise distinct, and get_X(text) returns absent or the value
\* of the latest set_X for the same text, never one stored through another
\* namespace or for another text.
C12_NamespacesApart ==
    /\ \A x, y \in Namespaces \X ManagerTexts :
           x # y => ManagerKey(x[1], x[2]) # ManagerKey(y[1], y[2])
    /\ mgrOp.op = "get" =>
           mgrOp.ret \in {None, stored[<<mgrOp.ns, mgrOp.text>>]}
    /\ \A x \in Namespaces \X ManagerTexts :
           Lookup(cache, ManagerKey(x[1], x[2])) \in {None, stored[x]}

\* get_X(text) has just returned the value set through X while another
\* namespace holds a different value for the same text
C12_Witness ==
    /\ mgrOp.op = "get"
    /\ mgrOp.ret # None
    /\ mgrOp.ret = stored[<<mgrOp.ns, mgrOp.text>>]
    /\ \E ns \in Namespaces \ {mgrOp.ns} :
           /\ stored[<<ns, mgrOp.text>>] \notin {None, mgrOp.ret}
           /\ Lookup(cache, ManagerKey(ns, mgrOp.text)) = stored[<<ns, mgrOp.text>>]

----------------------------------------------------------------------------
(* mdparser/lexer.py *)

SPECIAL_CHARS == {"#", "-", "*", "[", "]", "(", ")", NL, BT, ">", "."}

\* Lexer.peek(k) with the cursor at i; '' is the empty string
Peek2(txt, i, k) == IF i + k < Len(txt) THEN txt[i + k + 1] ELSE ""

Lexer2SingleCharType(ch) ==
    CASE ch = ">" -> "GT"
      [] ch = "-" -> "DASH"
      [] ch = "[" -> "LBRACKET"
      [] ch = "]" -> "RBRACKET"
      [] ch = "(" -> "LPAREN"
      [] ch = ")" -> "RPAREN"

RECURSIVE Repeat(_, _)
\* ch * count
Repeat(ch, count) == IF count <= 0 THEN <<>> ELSE <<ch>> \o Repeat(ch, count - 1)

\* Lexer.next_token of mdparser/lexer.py with the cursor at i
Lexer2NextToken(txt, i) ==
    IF i >= Len(txt) THEN [tok |-> Token("EOF", <<>>, i), pos |-> i]
    ELSE LET ch == Peek2(txt, i, 0) IN
      IF ch = CR THEN
        [tok |-> Token("NEWLINE", <<NL>>, i),
         pos |-> IF Peek2(txt, i, 1) = NL THEN i + 2 ELSE i + 1]
      ELSE IF ch = NL THEN [tok |-> Token("NEWLINE", <<NL>>, i), pos |-> i + 1]
      ELSE IF ch = BT /\ Peek2(txt, i, 1) = BT /\ Peek2(txt, i, 2) = BT THEN
        LET e == StopEnd(txt, i + 3, {NL, CR})
        IN  [tok |-> Token("CODE_FENCE", Strip(Slice(txt, i + 3, e)), i), pos |-> e]
      ELSE IF ch = "*" /\ Peek2(txt, i, 1) = "*" THEN
        [tok |-> Token("DOUBLE_STAR", <<"*", "*">>, i), pos |-> i + 2]
      ELSE IF ch = "*" THEN [tok |-> Token("STAR", <<"*">>, i), pos |-> i + 1]
      ELSE IF ch = "#" THEN
        LET e == RunEnd(txt, i, {"#"})
        IN  [tok |-> Token("HASH", Repeat("#", e - i), i), pos |-> e]
      ELSE IF ch \in {">", "-"} THEN
        [tok |-> Token(Lexer2SingleCharType(ch), <<ch>>, i), pos |-> i + 1]
      ELSE IF IsDigit(ch) /\ NumberMatchLen(txt, i) > 0 THEN
        LET n == NumberMatchLen(txt, i)
        IN  [tok |-> Token("NUMBER", Slice(txt, i, i + n), i), pos |-> i + n]
      ELSE IF ch \in {"[", "]", "(", ")"} THEN
        [tok |-> Token(Lexer2SingleCharType(ch), <<ch>>, i), pos |-> i + 1]
      ELSE
        LET e == StopEnd(txt, i, SPECIAL_CHARS)
        IN  [tok |-> Token("TEXT", Slice(txt, i, e), i), pos |-> e]

----------------------------------------------------------------------------
(* Specification Lex2Spec: Lexer.tokenize of mdparser/lexer.py, one         *)
(* next_token call at a time, followed for at most MaxCalls calls          *)

Lex2Alphabet ==
    {"a", "1", ".", NL, CR, SP, "#", "-", "*", ">", BT, "[", "]", "(", ")"}

Lex2Init ==
    /\ text \in StringsUpTo(Lex2Alphabet, MaxLexLen)
    /\ pos = 0
    /\ tokens = <<>>
    /\ prevPos = 0
    /\ calls = 0
    /\ ParseIdle
    /\ CacheIdle
    /\ ManagerIdle
    /\ ServiceIdle
    /\ ThreadIdle
    /\ RenderIdle
    /\ ProbeIdle
    /\ InstanceIdle

\* one iteration of the while loop of Lexer.tokenize
Lexer2TokenizeStep ==
    /\ LexRunning
    /\ calls < MaxCalls
    /\ LET r == Lexer2NextToken(text, pos)
       IN  /\ tokens' = Append(tokens, r.tok)
           /\ pos' = r.pos
    /\ prevPos' = pos
    /\ calls' = calls + 1
    /\ UNCHANGED <<text, parseVars, cacheVars, cacheHist, mgrVars, svcVars, thrVars, rndVars, prbVars, instVars>>

Lex2Next == Lexer2TokenizeStep

Lex2Spec == Lex2Init /\ [][Lex2Next]_vars

\* C2: Lexer.tokenize of mdparser/lexer.py is total: every next_token call
\* that does not return EOF advances the cursor, so at most len(text) + 1
\* calls are made and the list ends in exactly one EOF token.
C2_Lexer2Total ==
    /\ calls <= Len(text) + 1
    /\ (tokens # <<>> /\ tokens[Len(tokens)].type # "EOF") => pos > prevPos
    /\ \A k \in 1..Len(tokens) : tokens[k].type = "EOF" => k = Len(tokens)

----------------------------------------------------------------------------
(* mdparser/lexer.py: Lexer.tokenize as a whole.  A call that does not      *)
(* return (its loop repeats one state for ever) gives ok = FALSE.           *)

Returned(v) == [ok |-> TRUE, val |-> v]

NeverReturns == [ok |-> FALSE, val |-> <<>>]

RECURSIVE Lexer2TokenizeFrom(_, _, _)
\* the while loop of Lexer.tokenize with the cursor at i
Lexer2TokenizeFrom(txt, i, toks) ==
    LET r == Lexer2NextToken(txt, i)
    IN  IF r.tok.type = "EOF" THEN Returned(Append(toks, r.tok))
        ELSE IF r.pos = i THEN NeverReturns
        ELSE Lexer2TokenizeFrom(txt, r.pos, Append(toks, r.tok))

\* Lexer(text).tokenize()
Lexer2Tokenize(txt) == Lexer2TokenizeFrom(txt, 0, <<>>)

----------------------------------------------------------------------------
(* mdparser/ast_nodes.py *)

Document2(children) == [node |-> "Document", children |-> children]
Heading2(level, inline) == [node |-> "Heading", level |-> level, inline |-> inline]
Paragraph2(inline) == [node |-> "Paragraph", inline |-> inline]
Text2(value) == [node |-> "Text", value |-> value]
Bold2(inline) == [node |-> "Bold", inline |-> inline]
Italic2(inline) == [node |-> "Italic", inline |-> inline]
Link2(inline, href) == [node |-> "Link", inline |-> inline, href |-> href]
ListItem2(inline) == [node |-> "ListItem", inline |-> inline]
UnorderedList(items) == [node |-> "UnorderedList", items |-> items]
OrderedList(items) == [node |-> "OrderedList", items |-> items]
CodeBlock2(language, code) == [node |-> "CodeBlock", language |-> language, code |-> code]
BlockQuote2(children) == [node |-> "BlockQuote", children |-> children]

----------------------------------------------------------------------------
(* mdparser/inline_parser.py *)

\* s.startswith(sub, i)
StartsWithAt(s, sub, i) ==
    i + Len(sub) <= Len(s) /\ SubSeq(s, i + 1, i + Len(sub)) = sub

\* s.find(sub, start): the lowest index >= start where sub occurs, or -1
Find(s, sub, start) ==
    LET c == {j \in start..(Len(s) - Len(sub)) : StartsWithAt(s, sub, j)}
    IN  IF c = {} THEN -1 ELSE CHOOSE j \in c : \A k \in c : j <= k

RECURSIVE MergeText(_, _)
\* "merge adjacent Text"
MergeText(nodes, merged) ==
    IF nodes = <<>> THEN merged
    ELSE IF Head(nodes).node = "Text" /\ merged # <<>> /\ merged[Len(merged)].node = "Text"
    THEN MergeText(Tail(nodes),
                   [merged EXCEPT ![Len(merged)] = Text2(@.value \o Head(nodes).value)])
    ELSE MergeText(Tail(nodes), Append(merged, Head(nodes)))

RECURSIVE parse_inline_from_text(_)
RECURSIVE InlineLoop2(_, _, _)

\* nodes.append(Bold(inner)) / Italic(inner) / Link(inner, href), then "continue"
InlineAppend2(s, next, nodes, kind, href, inner) ==
    IF ~inner.ok THEN NeverReturns
    ELSE InlineLoop2(s, next,
             Append(nodes, CASE kind = "Bold" -> Bold2(inner.val)
                             [] kind = "Italic" -> Italic2(inner.val)
                             [] kind = "Link" -> Link2(inner.val, href)))

\* the "while i < n" loop of parse_inline_from_text
InlineLoop2(s, i, nodes) ==
    LET n == Len(s)
        jb == Find(s, <<"*", "*">>, i + 2)
        ji == Find(s, <<"*">>, i + 1)
        rb == Find(s, <<"]">>, i + 1)
        rp == Find(s, <<")">>, rb + 2)
        e == StopEnd(s, i, {"*", "["})
    IN  IF i >= n THEN Returned(MergeText(nodes, <<>>))
        ELSE IF StartsWithAt(s, <<"*", "*">>, i) /\ jb # -1
        THEN InlineAppend2(s, jb + 2, nodes, "Bold", <<>>,
                           parse_inline_from_text(Slice(s, i + 2, jb)))
        ELSE IF StartsWithAt(s, <<"*">>, i) /\ ji # -1
        THEN InlineAppend2(s, ji + 1, nodes, "Italic", <<>>,
                           parse_inline_from_text(Slice(s, i + 1, ji)))
        ELSE IF StartsWithAt(s, <<"[">>, i) /\ rb # -1 /\ rb + 1 < n /\ s[rb + 2] = "("
                /\ rp # -1
        THEN InlineAppend2(s, rp + 1, nodes, "Link", Slice(s, rb + 2, rp),
                           parse_inline_from_text(Slice(s, i + 1, rb)))
        \* "accumulate text": when the character at i is '*' or '[' the inner
        \* loop does not move i and nothing is appended, so the outer loop
        \* repeats with the same i for ever
        ELSE IF e = i THEN NeverReturns
        ELSE InlineLoop2(s, e, Append(nodes, Text2(Slice(s, i, e))))

parse_inline_from_text(s) == InlineLoop2(s, 0, <<>>)

----------------------------------------------------------------------------
(* mdparser/parser.py: tokens ts, index i (0-based) *)

Lexer2Types ==
    {"HASH", "DASH", "STAR", "DOUBLE_STAR", "LBRACKET", "RBRACKET", "LPAREN", "RPAREN",
     "NEWLINE", "TEXT", "EOF", "CODE_FENCE", "NUMBER", "GT"}

\* Parser.peek()
Parser2Peek(ts, i) == ts[(IF i < Len(ts) THEN i ELSE Len(ts) - 1) + 1]

\* Parser.advance(k): the new index
Parser2Advance(ts, i, k) == IF i + k < Len(ts) - 1 THEN i + k ELSE Len(ts) - 1

\* "if self.peek().type == TokenType.NEWLINE: self.advance(1)"
Parser2SkipNewline(ts, i) ==
    IF Parser2Peek(ts, i).type = "NEWLINE" THEN Parser2Advance(ts, i, 1) ELSE i

BlockDone(i, v) == [ok |-> TRUE, i |-> i, val |-> v]

BlockNeverReturns == [ok |-> FALSE, i |-> 0, val |-> <<>>]

\* Parser.collect_line_text(): the text and the index it stops at
collect_line_text(ts, i) ==
    LET e == TypeRunEnd(ts, i, Lexer2Types \ {"NEWLINE", "EOF"})
    IN  [text |-> Strip(ValuesBetween(ts, i, e)), i |-> e]

\* parse_heading after parse_inline_from_text
Parser2HeadingDone(ts, level, i, inline) ==
    IF ~inline.ok THEN BlockNeverReturns
    ELSE BlockDone(Parser2SkipNewline(ts, i), Heading2(level, inline.val))

\* Parser.parse_heading
parse_heading(ts, i) ==
    LET c == collect_line_text(ts, Parser2Advance(ts, i, 1))
    IN  Parser2HeadingDone(ts, Len(Parser2Peek(ts, i).value), c.i,
                           parse_inline_from_text(c.text))

RECURSIVE MarkedLines(_, _, _, _)

\* the item of one line: a ListItem, or a Paragraph in a block quote
MarkedLine(marker, inline) ==
    IF marker = "GT" THEN Paragraph2(inline) ELSE ListItem2(inline)

\* "items.append(...)", then the NEWLINE test that continues or breaks
MarkedLinesStep(ts, i, marker, items, inline) ==
    IF ~inline.ok THEN BlockNeverReturns
    ELSE IF Parser2Peek(ts, i).type = "NEWLINE"
    THEN MarkedLines(ts, Parser2Advance(ts, i, 1), marker,
                     Append(items, MarkedLine(marker, inline.val)))
    ELSE BlockDone(i, Append(items, MarkedLine(marker, inline.val)))

\* the while loop shared by parse_unordered_list (marker DASH),
\* parse_ordered_list (NUMBER) and parse_blockquote (GT)
MarkedLines(ts, i, marker, items) ==
    IF Parser2Peek(ts, i).type # marker THEN BlockDone(i, items)
    ELSE LET c == collect_line_text(ts, Parser2Advance(ts, i, 1))
         IN  MarkedLinesStep(ts, c.i, marker, items, parse_inline_from_text(c.text))

\* the node built from the collected lines
MarkedBlock(marker, r) ==
    IF ~r.ok THEN r
    ELSE BlockDone(r.i, CASE marker = "DASH" -> UnorderedList(r.val)
                          [] marker = "NUMBER" -> OrderedList(r.val)
                          [] marker = "GT" -> BlockQuote2(r.val))

\* Parser.parse_unordered_list
parse_unordered_list(ts, i) == MarkedBlock("DASH", MarkedLines(ts, i, "DASH", <<>>))

\* Parser.parse_ordered_list
parse_ordered_list(ts, i) == MarkedBlock("NUMBER", MarkedLines(ts, i, "NUMBER", <<>>))

\* Parser.parse_blockquote of mdparser/parser.py
parse_blockquote2(ts, i) == MarkedBlock("GT", MarkedLines(ts, i, "GT", <<>>))

\* Parser.parse_code_fence
parse_code_fence(ts, i) ==
    LET start == Parser2Advance(ts, i, 1)
        e == TypeRunEnd(ts, start, Lexer2Types \ {"CODE_FENCE", "EOF"})
        closed == IF Parser2Peek(ts, e).type = "CODE_FENCE" THEN Parser2Advance(ts, e, 1) ELSE e
    IN  BlockDone(Parser2SkipNewline(ts, closed),
                  CodeBlock2(Parser2Peek(ts, i).value, ValuesBetween(ts, start, e)))

\* parse_paragraph after parse_inline_from_text
Parser2ParagraphDone(i, inline) ==
    IF ~inline.ok THEN BlockNeverReturns ELSE BlockDone(i, Paragraph2(inline.val))

\* Parser.parse_paragraph of mdparser/parser.py
parse_paragraph2(ts, i) ==
    LET e == TypeRunEnd(ts, i, Lexer2Types \ {"EOF", "NEWLINE", "HASH", "DASH", "NUMBER",
                                              "CODE_FENCE", "GT"})
    IN  Parser2ParagraphDone(Parser2SkipNewline(ts, e),
                             parse_inline_from_text(Strip(ValuesBetween(ts, i, e))))

\* Parser.parse_block of mdparser/parser.py
parse_block2(ts, i) ==
    LET ty == Parser2Peek(ts, i).type
    IN  CASE ty = "HASH" -> parse_heading(ts, i)
          [] ty = "DASH" -> parse_unordered_list(ts, i)
          [] ty = "NUMBER" -> parse_ordered_list(ts, i)
          [] ty = "CODE_FENCE" -> parse_code_fence(ts, i)
          [] ty = "GT" -> parse_blockquote2(ts, i)
          [] OTHER -> parse_paragraph2(ts, i)

RECURSIVE Parser2Loop(_, _, _)

\* "children.append(node)"
Parser2Step(ts, children, b) ==
    IF ~b.ok THEN NeverReturns ELSE Parser2Loop(ts, b.i, Append(children, b.val))

\* the while loop of Parser.parse of mdparser/parser.py
Parser2Loop(ts, i, children) ==
    IF Parser2Peek(ts, i).type = "EOF" THEN Returned(Document2(children))
    ELSE IF Parser2Peek(ts, i).type = "NEWLINE"
    THEN Parser2Loop(ts, Parser2Advance(ts, i, 1), children)
    ELSE Parser2Step(ts, children, parse_block2(ts, i))

\* Parser(tokens).parse()
Parser2Parse(ts) == Parser2Loop(ts, 0, <<>>)

\* "tokens = Lexer(text).tokenize(); ast = Parser(tokens).parse()"
LexAndParse2(txt) ==
    IF ~Lexer2Tokenize(txt).ok THEN NeverReturns ELSE Parser2Parse(Lexer2Tokenize(txt).val)

----------------------------------------------------------------------------
(* mdparser/cache_service.py and mdparser/parser_service.py                 *)

\* texts handed to ParserService.parse; parse returns on the first five,
\* the inline parser loops on "*a" and the lexer loops on "a."
ServiceTexts ==
    {<<"#", SP, "a">>, <<"a">>, <<"-", SP, "a", NL, "-", SP, "b">>,
     <<"*", "*", "a", "*", "*">>, <<">", SP, "a">>, <<"*", "a">>, <<"a", ".">>}

\* a key function that maps every text to one key
_keyOfNothing(t) == "0"

\* CacheService._key(text): the SHA-256 hex digest, for the texts of ServiceTexts
_key(t) ==
    CASE t = <<"#", SP, "a">> -> "b2e77fbb5f564e2145071c75ac6a7d56478cf3ef696e5100f53378a7bb185750"
      [] t = <<"a">> -> "ca978112ca1bbdcafac231b39a23dc4da786eff8147c4e72b9807785afee48bb"
      [] t = <<"-", SP, "a", NL, "-", SP, "b">> -> "4e11985d599fbbf978c25d40a56777b17b1f399b68a59ed9c1971fa2e35cc281"
      [] t = <<"*", "*", "a", "*", "*">> -> "40ee00c9dbf168f9497d38ba90d0f0ebc75861c01ee331d706c2e1a9bdeecb5c"
      [] t = <<">", SP, "a">> -> "f44dd297dc5eadaa98f2c5b736483ea3d50bc804225434fcedf251f280578e71"
      [] t = <<"*", "a">> -> "3a410268ab33cd7157ff2a03538d5f8c17bb174ef101d1e872f2095243567056"
      [] t = <<"a", ".">> -> "5ab640fad553cbf927dc96b8e7878a9844b2fa79b7a4f5c515e186970ec53027"

ServiceKeys == {_key(t) : t \in ServiceTexts} \cup {"0"}

\* Python values of different kinds are tagged tuples: None is <<"None">>,
\* a Document object with tree d is <<"Document", d>>
DocumentObject(d) == <<"Document", d>>

\* pickle.dumps(ast): a byte string that pickle.loads turns back into ast
PickleDumps(ast) == <<"pickle", ast>>

\* stored values that are no pickle: pickle.loads raises on them
InvalidData == {<<"bytes", "garbage">>, <<"str", "not bytes">>}

\* pickle.loads(data); ok = FALSE when it raises
PickleLoads(data) ==
    IF data[1] = "pickle" THEN [ok |-> TRUE, val |-> data[2]]
    ELSE [ok |-> FALSE, val |-> None]

\* InMemoryCacheBackend.get(key): self.store.get(key)
BackendGet(st, key) == st[key]

\* CacheService.get_ast(text) on the backend store st
ServiceGetAst(st, t) ==
    LET data == BackendGet(st, _key(t))
    IN  IF data = None THEN None
        ELSE IF PickleLoads(data).ok THEN PickleLoads(data).val
        ELSE data

\* CacheService.set_ast(text, ast): the new backend store
ServiceSetAst(st, t, ast) == [st EXCEPT ![_key(t)] = PickleDumps(ast)]

\* PerfMonitor.report() after the stop() that made the count n; the clock
\* readings are left out
PerfReport(n) == <<"dict", [requests_total |-> n]>>

\* the record of a call: earlier says whether a parse of the same text had
\* returned before this call, invalid whether the entry this call found for
\* the text was one that cannot be deserialized
ServiceOp(name, t, ret, invalid) ==
    [op |-> name, text |-> t, ret |-> ret, earlier |-> first[t] # None,
     invalid |-> invalid, n |-> svcOp.n + 1]

\* ParserService.parse(text)
ServiceParse(t) ==
    /\ svcOp.op # "hung"
    /\ svcOp.n < MaxServiceCalls
    /\ LET ast == ServiceGetAst(store, t)
           invalid == BackendGet(store, _key(t)) \in InvalidData
           parsed == LexAndParse2(t)
           tree == DocumentObject(parsed.val)
       IN  IF ast # None
           THEN /\ svcOp' = ServiceOp("parse", t,
                                      [ast |-> ast, cached |-> TRUE, metrics |-> None], invalid)
                /\ first' = IF first[t] = None THEN [first EXCEPT ![t] = ast] ELSE first
                /\ UNCHANGED <<store, perfCount>>
           ELSE IF ~parsed.ok
           THEN \* tokenize() or parse() never returns: neither does parse(text)
                /\ svcOp' = [svcOp EXCEPT !.op = "hung", !.text = t, !.n = @ + 1]
                /\ UNCHANGED <<store, perfCount, first>>
           ELSE /\ perfCount' = perfCount + 1
                /\ store' = ServiceSetAst(store, t, tree)
                /\ svcOp' = ServiceOp("parse", t,
                                      [ast |-> tree, cached |-> FALSE,
                                       metrics |-> PerfReport(perfCount + 1)], invalid)
                /\ first' = IF first[t] = None THEN [first EXCEPT ![t] = tree] ELSE first

\* InMemoryCacheBackend.set(key, value) called with data that is no pickle
BackendSetInvalid(t, data) ==
    /\ svcOp.op # "hung"
    /\ svcOp.n < MaxServiceCalls
    /\ store' = [store EXCEPT ![_key(t)] = data]
    /\ svcOp' = ServiceOp("backend.set", t, None, FALSE)
    /\ UNCHANGED <<perfCount, first>>

----------------------------------------------------------------------------
(* Specification ServiceSpec: one ParserService with its own CacheService   *)
(* over an InMemoryCacheBackend, called at most MaxServiceCalls times.      *)
(* Specification ServiceFaultSpec: the same, with entries of the backend    *)
(* that cannot be deserialized.                                             *)

ServiceInit ==
    /\ store = [k \in ServiceKeys |-> None]
    /\ perfCount = 0
    /\ svcOp = [op |-> "init", text |-> <<>>, ret |-> None, earlier |-> FALSE,
                invalid |-> FALSE, n |-> 0]
    /\ first = [t \in ServiceTexts |-> None]
    /\ text = <<>>
    /\ LexIdle
    /\ ParseIdle
    /\ CacheIdle
    /\ ManagerIdle
    /\ ThreadIdle
    /\ RenderIdle
    /\ ProbeIdle
    /\ InstanceIdle

ServiceNext == \E t \in ServiceTexts : ServiceParse(t)

ServiceStep ==
    ServiceNext /\ UNCHANGED <<text, lexVars, parseVars, cacheVars, cacheHist, mgrVars, thrVars, rndVars, prbVars, instVars>>

ServiceSpec == ServiceInit /\ [][ServiceStep]_vars

ServiceFaultNext ==
    \/ \E t \in ServiceTexts : ServiceParse(t)
    \/ \E t \in ServiceTexts, data \in InvalidData : BackendSetInvalid(t, data)

ServiceFaultStep ==
    ServiceFaultNext /\ UNCHANGED <<text, lexVars, parseVars, cacheVars, cacheHist, mgrVars, thrVars, rndVars, prbVars, instVars>>

ServiceFaultSpec == ServiceInit /\ [][ServiceFaultStep]_vars

\* C13: when ParserService.parse(text) returns, the first such call for the
\* text reports cached=False, returns the parsed tree and leaves it stored
\* under the text's key; every later call for the same text reports
\* cached=True and returns a tree equal to the first one.
C13_FirstMissThenHit ==
    svcOp.op = "parse" =>
        IF ~svcOp.earlier
        THEN /\ svcOp.ret.cached = FALSE
             /\ svcOp.ret.metrics # None
             /\ svcOp.ret.ast = DocumentObject(LexAndParse2(svcOp.text).val)
             /\ PickleLoads(BackendGet(store, _key(svcOp.text))) =
                    [ok |-> TRUE, val |-> svcOp.ret.ast]
        ELSE /\ svcOp.ret.cached = TRUE
             /\ svcOp.ret.ast = first[svcOp.text]

\* a later parse of a text has just returned from the cache while the trees
\* of other texts are stored too
C13_Witness ==
    /\ svcOp.op = "parse"
    /\ svcOp.earlier
    /\ svcOp.ret.cached
    /\ svcOp.ret.ast = first[svcOp.text]
    /\ \E t \in ServiceTexts \ {svcOp.text} : first[t] # None

\* C14: a parse(text) that finds an entry that cannot be deserialized
\* treats it as a miss: it returns the parsed tree with cached=False, not
\* the stored data.
C14_InvalidEntryIsMiss ==
    (svcOp.op = "parse" /\ svcOp.invalid) =>
        /\ svcOp.ret.cached = FALSE
        /\ svcOp.ret.ast = DocumentObject(LexAndParse2(svcOp.text).val)

----------------------------------------------------------------------------
(* mdparser/markdown_parser/cache.py: LRUCache and LFUCache called by       *)
(* several threads.  A call is a sequence of steps, one per statement of    *)
(* the method ("x += 1" is a read and a write), taken inside "with          *)
(* self.lock".                                                              *)

Threads == {"t1", "t2"}

ThreadKeys == {"k1", "k2"}

\* a lock that lets every thread in
CanAcquireAlways == TRUE

\* threading.Lock: "with self.lock" is entered only while no thread is inside
CanAcquire == lock = "free"

\* a thread's call: at is its position, present what "key in self.cache"
\* gave, tmp the value read by "+=" or by pop(0)
IdleThread ==
    [at |-> "idle", op |-> "", key |-> "", value |-> None, present |-> FALSE, tmp |-> 0]

\* thread t goes on to position at
Goto(t, at) == thr' = [thr EXCEPT ![t].at = at]

\* another thread stands at "with self.lock" while t runs inside it
Waiting(t) == \E u \in Threads \ {t} : thr[u].at = "acquire"

\* a step of t inside the locked region
Inside(t, at) ==
    /\ thr[t].at = at
    /\ contended' = (contended \/ Waiting(t))
    /\ UNCHANGED <<strategy, capacity, started>>

\* thread t calls get(key), set(key, value) or clear()
Begin(t, op, key, value) ==
    /\ thr[t].at = "idle"
    /\ started < MaxThreadCalls
    /\ started' = started + 1
    /\ thr' = [thr EXCEPT ![t] = [at |-> "acquire", op |-> op, key |-> key,
                                  value |-> value, present |-> FALSE, tmp |-> 0]]
    /\ UNCHANGED <<cacheVars, gets, lock, contended>>

\* "with self.lock:" is entered
Acquire(t) ==
    /\ thr[t].at = "acquire"
    /\ CanAcquire
    /\ lock' = t
    /\ Goto(t, thr[t].op)
    /\ UNCHANGED <<cacheVars, gets, started, contended>>

\* the with block is left: the call returns (or its exception propagates)
Release(t) ==
    /\ Inside(t, "release")
    /\ lock' = "free"
    /\ gets' = IF thr[t].op = "get" THEN gets + 1 ELSE gets
    /\ thr' = [thr EXCEPT ![t] = IdleThread]
    /\ UNCHANGED <<cache, order, hits, misses>>

\* get: "if key in self.cache", then the read of "self.hits += 1" or of
\* "self.misses += 1"
GetTest(t) ==
    /\ Inside(t, "get")
    /\ thr' = [thr EXCEPT ![t].at = IF HasKey(cache, thr[t].key) THEN "hit" ELSE "miss",
                          ![t].present = HasKey(cache, thr[t].key),
                          ![t].tmp = IF HasKey(cache, thr[t].key) THEN hits ELSE misses]
    /\ UNCHANGED <<cache, order, hits, misses, gets, lock>>

\* the write of "self.hits += 1"
HitWrite(t) ==
    /\ Inside(t, "hit")
    /\ hits' = thr[t].tmp + 1
    /\ Goto(t, IF strategy = "LRU" THEN "remove" ELSE "freq")
    /\ UNCHANGED <<cache, order, misses, gets, lock>>

\* the write of "self.misses += 1", then "return None"
MissWrite(t) ==
    /\ Inside(t, "miss")
    /\ misses' = thr[t].tmp + 1
    /\ Goto(t, "release")
    /\ UNCHANGED <<cache, order, hits, gets, lock>>

\* LRUCache: "self.order.remove(key)" (ValueError when the key is not there)
OrderRemove(t) ==
    /\ Inside(t, "remove")
    /\ order' = ListRemove(order, thr[t].key)
    /\ Goto(t, IF \E i \in 1..Len(order) : order[i] = thr[t].key THEN "append" ELSE "release")
    /\ UNCHANGED <<cache, hits, misses, gets, lock>>

\* LRUCache: "self.order.append(key)"; get returns after it, set goes on to
\* store the value or to the capacity test
OrderAppend(t) ==
    /\ Inside(t, "append")
    /\ order' = Append(order, thr[t].key)
    /\ Goto(t, IF thr[t].op = "get" THEN "release"
               ELSE IF thr[t].present THEN "assign"
               ELSE IF Len(cache) > capacity THEN "pop"
               ELSE "release")
    /\ UNCHANGED <<cache, hits, misses, gets, lock>>

\* LFUCache.get: "self.cache[key] = (value, freq + 1)"
FreqIncrement(t) ==
    /\ Inside(t, "freq")
    /\ cache' = [i \in 1..Len(cache) |->
                   IF cache[i].key = thr[t].key
                   THEN [cache[i] EXCEPT !.freq = cache[i].freq + 1] ELSE cache[i]]
    /\ Goto(t, "release")
    /\ UNCHANGED <<order, hits, misses, gets, lock>>

\* set: "if key in self.cache" and, for LFUCache, the capacity test
SetTest(t) ==
    /\ Inside(t, "set")
    /\ thr' = [thr EXCEPT
                 ![t].present = HasKey(cache, thr[t].key),
                 ![t].at = IF strategy = "LRU"
                           THEN IF HasKey(cache, thr[t].key) THEN "remove" ELSE "insert"
                           ELSE IF HasKey(cache, thr[t].key) THEN "overwrite"
                           ELSE IF Len(cache) >= capacity
                           \* min() of an empty dict raises ValueError
                           THEN (IF cache = <<>> THEN "release" ELSE "least")
                           ELSE "insert"]
    /\ UNCHANGED <<cache, order, hits, misses, gets, lock>>

\* LRUCache.set on a present key: "self.cache[key] = value"
Assign(t) ==
    /\ Inside(t, "assign")
    /\ cache' = DictAssign(cache, thr[t].key, thr[t].value)
    /\ Goto(t, "release")
    /\ UNCHANGED <<order, hits, misses, gets, lock>>

\* LFUCache.set on a present key: "self.cache[key] = (value, freq + 1)"
Overwrite(t) ==
    /\ Inside(t, "overwrite")
    /\ cache' = [i \in 1..Len(cache) |->
                   IF cache[i].key = thr[t].key
                   THEN [key |-> thr[t].key, value |-> thr[t].value, freq |-> cache[i].freq + 1]
                   ELSE cache[i]]
    /\ Goto(t, "release")
    /\ UNCHANGED <<order, hits, misses, gets, lock>>

\* the insertion of a new key: "self.cache[key] = value" (LRUCache, which
\* goes on to append to the order) or "self.cache[key] = (value, 1)"
Insert(t) ==
    /\ Inside(t, "insert")
    /\ LET entry == IF strategy = "LRU" THEN [key |-> thr[t].key, value |-> thr[t].value]
                    ELSE [key |-> thr[t].key, value |-> thr[t].value, freq |-> 1]
       IN  cache' = IF HasKey(cache, thr[t].key)
                    THEN [i \in 1..Len(cache) |->
                            IF cache[i].key = thr[t].key THEN entry ELSE cache[i]]
                    ELSE Append(cache, entry)
    /\ Goto(t, IF strategy = "LRU" THEN "append" ELSE "release")
    /\ UNCHANGED <<order, hits, misses, gets, lock>>

\* LRUCache.set: "oldest = self.order.pop(0)"
OrderPop(t) ==
    /\ Inside(t, "pop")
    /\ IF order = <<>>
       THEN /\ Goto(t, "release")
            /\ UNCHANGED order
       ELSE /\ thr' = [thr EXCEPT ![t].at = "delete", ![t].tmp = Head(order)]
            /\ order' = Tail(order)
    /\ UNCHANGED <<cache, hits, misses, gets, lock>>

\* LRUCache.set: "del self.cache[oldest]"
DeleteOldest(t) ==
    /\ Inside(t, "delete")
    /\ cache' = DictDelete(cache, thr[t].tmp)
    /\ Goto(t, "release")
    /\ UNCHANGED <<order, hits, misses, gets, lock>>

\* LFUCache.set: "least_key = min(...); del self.cache[least_key]"
DeleteLeast(t) ==
    /\ Inside(t, "least")
    /\ cache' = IF cache = <<>> THEN cache ELSE DictDelete(cache, LeastFrequentKey(cache))
    /\ Goto(t, IF cache = <<>> THEN "release" ELSE "insert")
    /\ UNCHANGED <<order, hits, misses, gets, lock>>

\* clear: "self.cache.clear()"
ClearCache(t) ==
    /\ Inside(t, "clear")
    /\ cache' = <<>>
    /\ Goto(t, IF strategy = "LRU" THEN "clear_order" ELSE "release")
    /\ UNCHANGED <<order, hits, misses, gets, lock>>

\* LRUCache.clear: "self.order.clear()"
ClearOrder(t) ==
    /\ Inside(t, "clear_order")
    /\ order' = <<>>
    /\ Goto(t, "release")
    /\ UNCHANGED <<cache, hits, misses, gets, lock>>

----------------------------------------------------------------------------
(* Specification ThreadSpec: the threads of Threads call get, set and clear *)
(* on one LRUCache or LFUCache, MaxThreadCalls calls in all                 *)

ThreadInit ==
    /\ strategy \in {"LRU", "LFU"}
    /\ capacity \in 0..MaxCapacity
    /\ cache = <<>>
    /\ order = <<>>
    /\ hits = 0
    /\ misses = 0
    /\ gets = 0
    /\ lastOp = <<>> /\ lastSet = <<>> /\ evicted = {} /\ clock = 0 /\ lastTouch = <<>>
    /\ lock = "free"
    /\ thr = [t \in Threads |-> IdleThread]
    /\ started = 0
    /\ contended = FALSE
    /\ text = <<>>
    /\ LexIdle
    /\ ParseIdle
    /\ ManagerIdle
    /\ ServiceIdle
    /\ RenderIdle
    /\ ProbeIdle
    /\ InstanceIdle

ThreadNext ==
    \E t \in Threads :
        \/ \E key \in ThreadKeys : Begin(t, "get", key, None)
        \/ \E key \in ThreadKeys, value \in Values : Begin(t, "set", key, value)
        \/ Begin(t, "clear", "", None)
        \/ Acquire(t)
        \/ GetTest(t)
        \/ HitWrite(t)
        \/ MissWrite(t)
        \/ OrderRemove(t)
        \/ OrderAppend(t)
        \/ FreqIncrement(t)
        \/ SetTest(t)
        \/ Assign(t)
        \/ Overwrite(t)
        \/ Insert(t)
        \/ OrderPop(t)
        \/ DeleteOldest(t)
        \/ DeleteLeast(t)
        \/ ClearCache(t)
        \/ ClearOrder(t)
        \/ Release(t)

ThreadStep ==
    /\ ThreadNext
    /\ UNCHANGED <<text, lexVars, parseVars, mgrVars, svcVars, rndVars, prbVars, instVars,
                   lastOp, lastSet, evicted, clock, lastTouch>>

ThreadSpec == ThreadInit /\ [][ThreadStep]_vars

\* the threads that are inside "with self.lock"
InsideLock == {t \in Threads : thr[t].at \notin {"idle", "acquire"}}

\* C15: at most one thread is inside the locked region of get, set or clear,
\* and whenever none is, the LRU order list holds exactly the keys of the
\* map, each once, the map has at most capacity entries, and hits + misses
\* is the number of get calls that have returned.
C15_AtomicCalls ==
    /\ Cardinality(InsideLock) <= 1
    /\ InsideLock = {} =>
           /\ strategy = "LRU" =>
                  /\ Len(order) = Len(cache)
                  /\ {order[i] : i \in 1..Len(order)} = KeysOf(cache)
           /\ Cardinality(KeysOf(cache)) = Len(cache)
           /\ Len(cache) <= capacity
           /\ hits + misses = gets

\* no thread is inside the lock, after calls in which one thread waited for
\* the lock held by the other, a get hit and a get miss among them
C15_Witness ==
    /\ InsideLock = {}
    /\ contended
    /\ hits >= 1
    /\ misses >= 1
    /\ Len(cache) >= 1

-----------------------------------------------------------------------------
(* mdparser/markdown_parser/renderer.py and mdparser/renderer.py.  A        *)
(* rendered string is the list of the fragments written, in order: a piece  *)
(* of markup is one fragment, a payload contributes one fragment for each   *)
(* of its characters.  The string is the concatenation of the fragments.    *)

DQ == "\""
SQ == "'"

\* html.escape(s, quote=True) for one character
HtmlEscapeChar(c) ==
    CASE c = "&" -> "&amp;"
      [] c = "<" -> "&lt;"
      [] c = ">" -> "&gt;"
      [] c = DQ -> "&quot;"
      [] c = SQ -> "&#x27;"
      [] OTHER -> c

\* escape_html of markdown_parser/renderer.py
escape_html(s) == [i \in 1..Len(s) |-> HtmlEscapeChar(s[i])]

\* s.replace(old, new) where old is one character
Replace(s, old, new) == [i \in 1..Len(s) |-> IF s[i] = old THEN new ELSE s[i]]

\* escape_html of mdparser/renderer.py
escape_html2(s) ==
    Replace(Replace(Replace(Replace(Replace(s, "&", "&amp;"), "<", "&lt;"),
                            ">", "&gt;"), DQ, "&quot;"), SQ, "&#39;")

\* str(d) for one decimal digit
Digit(d) ==
    CASE d = 0 -> "0" [] d = 1 -> "1" [] d = 2 -> "2" [] d = 3 -> "3" [] d = 4 -> "4"
      [] d = 5 -> "5" [] d = 6 -> "6" [] d = 7 -> "7" [] d = 8 -> "8" [] d = 9 -> "9"

RECURSIVE Str(_)
\* str(n) of a natural number, as f"{n}" formats it
Str(n) == IF n < 10 THEN Digit(n) ELSE Str(n \div 10) \o Digit(n % 10)

RECURSIVE Spaces(_)
\* " " * n
Spaces(n) == IF n <= 0 THEN "" ELSE " " \o Spaces(n - 1)

RECURSIVE Join(_)
\* ''.join(parts) where every part is a list of fragments
Join(parts) == IF parts = <<>> THEN <<>> ELSE Head(parts) \o Join(Tail(parts))

\* what a visit leaves: the fragments written, and the record of every
\* payload and heading level together with what was written for it
Written(frags, recs) == [html |-> frags, emits |-> recs]

\* two visits one after the other
Then(a, b) == Written(a.html \o b.html, a.emits \o b.emits)

\* HTMLRenderer._w(s) for a piece of markup
W(s) == Written(<<s>>, <<>>)

\* HTMLRenderer._w_indent(s); indent_size is 2
WIndent(pretty, level, s) == W(IF pretty THEN Spaces(2 * level) \o s ELSE s)

\* "if self.pretty: self._w('\n')"
WNewline(pretty) == IF pretty THEN W(NL) ELSE Written(<<>>, <<>>)

\* self._w(escape_html(payload)) of visit_text, visit_codespan and visit_codeblock
WPayload(kind, payload) ==
    Written(escape_html(payload),
            <<[kind |-> kind, payload |-> payload, written |-> escape_html(payload)]>>)

\* node.url or ""
UrlOrEmpty(url) == IF url = None THEN <<>> ELSE url

\* the opening tag of visit_link: f'<a href="{href}">'
LinkOpen(url) ==
    Written(<<"<a href=\"">> \o escape_html(url) \o <<"\">">>,
            <<[kind |-> "url", payload |-> url, written |-> escape_html(url)]>>)

\* the opening tag of visit_codeblock, lang_attr included
CodeOpen(pretty, level, language) ==
    IF language = None \/ language = <<>> THEN WIndent(pretty, level, "<pre><code>")
    ELSE Written(<<(IF pretty THEN Spaces(2 * level) ELSE "")
                       \o "<pre><code class=\"language-">>
                     \o escape_html(language) \o <<"\">">>, <<>>)

\* the level visit_heading writes
Clamp(n) == IF n > 6 THEN 6 ELSE IF n < 1 THEN 1 ELSE n

\* the record of a heading: its level and the two tags written for it
HeadingEmit(level, open, close) ==
    Written(<<>>, <<[kind |-> "heading", payload |-> level, written |-> <<open, close>>]>>)

RECURSIVE Accept(_, _, _), AcceptAll(_, _, _), DocumentBlocks(_, _, _),
          ListItemChildren(_, _, _, _)

\* "for c in children: c.accept(self)"
AcceptAll(nodes, pretty, level) ==
    IF nodes = <<>> THEN Written(<<>>, <<>>)
    ELSE Then(Accept(Head(nodes), pretty, level), AcceptAll(Tail(nodes), pretty, level))

\* HTMLRenderer.visit_document: the loop over node.blocks
DocumentBlocks(blocks, pretty, level) ==
    IF blocks = <<>> THEN Written(<<>>, <<>>)
    ELSE Then(Then(Accept(Head(blocks), pretty, level),
                   IF pretty /\ Tail(blocks) # <<>> THEN W(NL) ELSE Written(<<>>, <<>>)),
              DocumentBlocks(Tail(blocks), pretty, level))

\* HTMLRenderer.visit_list_item: the loop over node.children
ListItemChildren(children, pretty, level, isFirst) ==
    IF children = <<>> THEN Written(<<>>, <<>>)
    ELSE Then(IF Head(children).node = "Paragraph"
              THEN AcceptAll(Head(children).inlines, pretty, level)
              ELSE Then(IF ~isFirst /\ pretty THEN W(NL) ELSE Written(<<>>, <<>>),
                        Accept(Head(children), pretty, level)),
              ListItemChildren(Tail(children), pretty, level, FALSE))

\* HTMLRenderer.visit_heading
visit_heading(n, pretty, level) ==
    LET open == "<h" \o Str(Clamp(n.level)) \o ">"
        close == "</h" \o Str(Clamp(n.level)) \o ">"
    IN  Then(Then(Then(Then(WIndent(pretty, level, open), HeadingEmit(n.level, open, close)),
                       AcceptAll(n.inlines, pretty, level)),
                  W(close)),
             WNewline(pretty))

\* HTMLRenderer.visit_text
visit_text(n) == WPayload("text", n.text)

\* HTMLRenderer.visit_codespan
visit_codespan(n) == Then(Then(W("<code>"), WPayload("codespan", n.code)), W("</code>"))

\* HTMLRenderer.visit_codeblock
visit_codeblock(n, pretty, level) ==
    Then(Then(Then(CodeOpen(pretty, level, n.language), WPayload("codeblock", n.code)),
              W("</code></pre>")),
         WNewline(pretty))

\* HTMLRenderer.visit_link
visit_link(n, pretty, level) ==
    Then(Then(LinkOpen(UrlOrEmpty(n.url)), AcceptAll(n.text_nodes, pretty, level)), W("</a>"))

\* HTMLRenderer.visit_list
visit_list(n, pretty, level) ==
    LET tag == IF n.ordered THEN "ol" ELSE "ul" IN
    Then(Then(Then(Then(WIndent(pretty, level, "<" \o tag \o ">"), WNewline(pretty)),
                   AcceptAll(n.items, pretty, level + 1)),
              WIndent(pretty, level, "</" \o tag \o ">")),
         WNewline(pretty))

\* HTMLRenderer.visit_blockquote
visit_blockquote(n, pretty, level) ==
    Then(Then(Then(Then(WIndent(pretty, level, "<blockquote>"), WNewline(pretty)),
                   AcceptAll(n.children, pretty, level + 1)),
              WIndent(pretty, level, "</blockquote>")),
         WNewline(pretty))

\* node.accept(renderer): the visit_* method of HTMLRenderer for the node
Accept(n, pretty, level) ==
    CASE n.node = "Document" -> DocumentBlocks(n.blocks, pretty, level)
      [] n.node = "Paragraph" ->
            Then(Then(Then(WIndent(pretty, level, "<p>"), AcceptAll(n.inlines, pretty, level)),
                      W("</p>")),
                 WNewline(pretty))
      [] n.node = "Heading" -> visit_heading(n, pretty, level)
      [] n.node = "Text" -> visit_text(n)
      [] n.node = "Bold" ->
            Then(Then(W("<strong>"), AcceptAll(n.children, pretty, level)), W("</strong>"))
      [] n.node = "Italic" ->
            Then(Then(W("<em>"), AcceptAll(n.children, pretty, level)), W("</em>"))
      [] n.node = "Link" -> visit_link(n, pretty, level)
      [] n.node = "ListBlock" -> visit_list(n, pretty, level)
      [] n.node = "ListItem" ->
            Then(Then(Then(WIndent(pretty, level, "<li>"),
                           ListItemChildren(n.children, pretty, level, TRUE)),
                      W("</li>")),
                 WNewline(pretty))
      [] n.node = "CodeBlock" -> visit_codeblock(n, pretty, level)
      [] n.node = "CodeSpan" -> visit_codespan(n)
      [] n.node = "BlockQuote" -> visit_blockquote(n, pretty, level)
      [] n.node = "HorizontalRule" ->
            Then(WIndent(pretty, level, "<hr />"), WNewline(pretty))

\* render_html(doc, pretty): HTMLRenderer(pretty=pretty).render(doc)
render_html(document, pretty) == Accept(document, pretty, 0)

\* escape_html(payload) of render_node for Text, CodeBlock and Link
Payload2(kind, payload) ==
    Written(escape_html2(payload),
            <<[kind |-> kind, payload |-> payload, written |-> escape_html2(payload)]>>)

\* the opening tag of a code block in render_node, lang_attr included
CodeOpen2(language) ==
    IF language = None \/ language = <<>> THEN W("<pre><code>")
    ELSE Written(<<"<pre><code class=\"language-">> \o escape_html2(language) \o <<"\">">>,
                 <<>>)

RECURSIVE render_node(_), RenderJoin(_, _), RenderItems(_)

\* sep.join(render_node(ch) for ch in nodes); sep is "" or "\n"
RenderJoin(nodes, sep) ==
    IF nodes = <<>> THEN Written(<<>>, <<>>)
    ELSE Then(Then(render_node(Head(nodes)),
                   IF sep # "" /\ Tail(nodes) # <<>> THEN W(sep) ELSE Written(<<>>, <<>>)),
              RenderJoin(Tail(nodes), sep))

\* ''.join(f'<li>{...}</li>' for item in node.items)
RenderItems(items) ==
    IF items = <<>> THEN Written(<<>>, <<>>)
    ELSE Then(Then(Then(W("<li>"), RenderJoin(Head(items).inline, "")), W("</li>")),
              RenderItems(Tail(items)))

\* render_node: the Heading branch
RenderHeading(n, inner) ==
    LET open == "<h" \o Str(n.level) \o ">"
        close == "</h" \o Str(n.level) \o ">"
    IN  Then(Then(Then(W(open), HeadingEmit(n.level, open, close)), inner), W(close))

\* render_node of mdparser/renderer.py
render_node(n) ==
    CASE n.node = "Document" -> RenderJoin(n.children, NL)
      [] n.node = "Heading" -> RenderHeading(n, RenderJoin(n.inline, ""))
      [] n.node = "Paragraph" -> Then(Then(W("<p>"), RenderJoin(n.inline, "")), W("</p>"))
      [] n.node = "Text" -> Payload2("text", n.value)
      [] n.node = "Bold" ->
            Then(Then(W("<strong>"), RenderJoin(n.inline, "")), W("</strong>"))
      [] n.node = "Italic" -> Then(Then(W("<em>"), RenderJoin(n.inline, "")), W("</em>"))
      [] n.node = "Link" ->
            Then(Then(Then(Then(W("<a href=\""), Payload2("url", n.href)), W("\">")),
                      RenderJoin(n.inline, "")),
                 W("</a>"))
      [] n.node = "UnorderedList" -> Then(Then(W("<ul>"), RenderItems(n.items)), W("</ul>"))
      [] n.node = "OrderedList" -> Then(Then(W("<ol>"), RenderItems(n.items)), W("</ol>"))
      [] n.node = "ListItem" -> RenderJoin(n.inline, "")
      [] n.node = "CodeBlock" ->
            Then(Then(CodeOpen2(n.language), Payload2("codeblock", n.code)),
                 W("</code></pre>"))
      [] n.node = "BlockQuote" ->
            Then(Then(W("<blockquote>"), RenderJoin(n.children, NL)), W("</blockquote>"))

\* render(document) of mdparser/renderer.py
render(document) == render_node(document)

\* the characters of the texts rendered
RenderAlphabet == {"a", "&", "<", ">", DQ, SQ, "#", SP}

\* pieces of markup that put a payload in every kind of node
RenderPieces ==
    { <<"#", "#", "#", "#", "#", "#", "#", SP, "a">>, <<"#", SP, "<", NL>>,
      <<BT, "&", BT>>, <<"[", "a", "]", "(", SQ, ")">>,
      <<BT, BT, BT, NL, "<", ">", NL, BT, BT, BT, NL>>, <<"-", SP, DQ, NL>>,
      <<">", "a", NL>>, <<"*", "*", ">", "*", "*">>, <<NL, NL>> }

\* the texts rendered: every short text, and the texts made of a few pieces
RenderTexts ==
    StringsUpTo(RenderAlphabet, MaxRenderLen)
        \cup {Concat(ps) : ps \in StringsUpTo(RenderPieces, MaxRenderPieces)}

RenderInit ==
    /\ text \in RenderTexts
    /\ LexIdle
    /\ pc = "start"
    /\ doc = <<>>
    /\ dict = <<>>
    /\ restored = <<>>
    /\ CacheIdle
    /\ ManagerIdle
    /\ ServiceIdle
    /\ ThreadIdle
    /\ RenderIdle
    /\ ProbeIdle
    /\ InstanceIdle

\* the string a renderer returned, and what it wrote for payloads and headings
RenderReturns(r, label) ==
    /\ html' = r.html
    /\ emits' = r.emits
    /\ pc' = label

\* html = render_html(doc, pretty)
RenderHtmlCall ==
    /\ pc = "parsed"
    /\ \E pretty \in BOOLEAN : RenderReturns(render_html(doc.val, pretty), "rendered")
    /\ UNCHANGED <<lexVars, doc, dict, restored, cacheVars, cacheHist, mgrVars, svcVars,
                   thrVars, prbVars, instVars>>

\* render(ast) once Parser(tokens).parse() has returned ast, if it returns
Render2Returns(r) ==
    /\ doc' = r
    /\ IF r.ok THEN RenderReturns(render(r.val), "rendered2")
       ELSE pc' = "hung" /\ UNCHANGED rndVars

\* "tokens = Lexer(text).tokenize(); ast = Parser(tokens).parse(); html = render(ast)"
Render2Call ==
    /\ pc = "start"
    /\ Render2Returns(LexAndParse2(text))
    /\ UNCHANGED <<lexVars, dict, restored, cacheVars, cacheHist, mgrVars, svcVars, thrVars,
                   prbVars, instVars>>

RenderNext == ParseMarkdownCall \/ RenderHtmlCall \/ Render2Call

RenderSpec == RenderInit /\ [][RenderNext]_vars

\* the payloads written: Text, CodeSpan and CodeBlock contents and link URLs
PayloadEmits ==
    {i \in 1..Len(emits) : emits[i].kind \in {"text", "codespan", "codeblock", "url"}}

\* C16: every Text, CodeSpan and CodeBlock payload and every link URL is
\* written with each of & < > " ' replaced by &amp; &lt; &gt; &quot; &#39;
\* and every other character as it is, so that no payload character opens
\* or closes a tag.
C16_PayloadEscaped ==
    \A i \in PayloadEmits :
        emits[i].written =
            [k \in 1..Len(emits[i].payload) |->
                CASE emits[i].payload[k] = "&" -> "&amp;"
                  [] emits[i].payload[k] = "<" -> "&lt;"
                  [] emits[i].payload[k] = ">" -> "&gt;"
                  [] emits[i].payload[k] = DQ -> "&quot;"
                  [] emits[i].payload[k] = SQ -> "&#39;"
                  [] OTHER -> emits[i].payload[k]]

RECURSIVE HashRun(_)
\* the number of '#' characters a text starts with
HashRun(s) == IF s # <<>> /\ Head(s) = "#" THEN 1 + HashRun(Tail(s)) ELSE 0

\* the blocks of the document a parser returned
BlocksOf(d) == IF d.node = "Document" /\ "blocks" \in DOMAIN d THEN d.blocks ELSE d.children

\* C17: every heading tag written is one of h1..h6: a Heading of level n is
\* written with <h{min(6,max(1,n))}> and </h{min(6,max(1,n))}>, while the
\* tree keeps the raw number of '#' characters as the level.
C17_HeadingClamped ==
    pc \in {"rendered", "rendered2"} =>
        /\ \A i \in 1..Len(emits) :
              emits[i].kind = "heading" =>
                  LET n == emits[i].payload
                      m == IF n > 6 THEN 6 ELSE IF n < 1 THEN 1 ELSE n
                  IN  emits[i].written = <<"<h" \o Str(m) \o ">", "</h" \o Str(m) \o ">">>
        /\ HashRun(text) > 0 =>
              /\ BlocksOf(doc.val)[1].node = "Heading"
              /\ BlocksOf(doc.val)[1].level = HashRun(text)

RECURSIVE SplitLines(_, _)
\* text.split("\n"): cur is the line being read
SplitLines(s, cur) ==
    IF s = <<>> THEN <<cur>>
    ELSE IF Head(s) = NL THEN <<cur>> \o SplitLines(Tail(s), <<>>)
    ELSE SplitLines(Tail(s), Append(cur, Head(s)))

\* the lines of a text whose last line may or may not end with a newline
LinesOf(s) ==
    IF s # <<>> /\ s[Len(s)] = NL
    THEN SubSeq(SplitLines(s, <<>>), 1, Len(SplitLines(s, <<>>)) - 1)
    ELSE SplitLines(s, <<>>)

RECURSIVE DigitRun(_)
\* the number of digits a line starts with
DigitRun(line) == IF line # <<>> /\ IsDigit(Head(line)) THEN 1 + DigitRun(Tail(line)) ELSE 0

\* the length of the list marker a line starts with: a dash, or digits and '.'
MarkerLen(line, ordered) ==
    IF ordered
    THEN (IF DigitRun(line) > 0 /\ Len(line) > DigitRun(line) /\ line[DigitRun(line) + 1] = "."
          THEN DigitRun(line) + 1 ELSE 0)
    ELSE IF line # <<>> /\ Head(line) = "-" THEN 1 ELSE 0

\* what follows the marker and one optional space
LineContent(line, ordered) ==
    LET rest == SubSeq(line, MarkerLen(line, ordered) + 1, Len(line))
    IN  IF rest # <<>> /\ Head(rest) = SP THEN Tail(rest) ELSE rest

\* characters that are no markup in the content of a list item
PlainChars == {"a", "b", "1", ".", "-", SP}

\* a line made of a marker, an optional space and plain-text content
IsListLine(line, ordered) ==
    /\ MarkerLen(line, ordered) > 0
    /\ \A k \in 1..Len(LineContent(line, ordered)) : LineContent(line, ordered)[k] \in PlainChars
    /\ LineContent(line, ordered) = <<>> \/ Head(LineContent(line, ordered)) # SP

\* the text is n >= 1 such lines and does not start with three dashes
IsListText(s, ordered) ==
    /\ \A i \in 1..Len(LinesOf(s)) : IsListLine(LinesOf(s)[i], ordered)
    /\ LinesOf(s) # <<>>
    /\ ~StartsWith(s, <<"-", "-", "-">>)

\* the characters of a list of Text nodes
TextOf(inlines) == Concat([i \in 1..Len(inlines) |-> inlines[i].text])

\* a list item that holds one Paragraph of Text nodes spelling content
ItemHolds(item, content) ==
    /\ item.node = "ListItem"
    /\ Len(item.children) = 1
    /\ item.children[1].node = "Paragraph"
    /\ \A k \in 1..Len(item.children[1].inlines) : item.children[1].inlines[k].node = "Text"
    /\ TextOf(item.children[1].inlines) = content

\* parse_markdown(text) has been called
ParseCalled == pc \in {"parsed", "raised", "serialized", "restored", "rendered"}

\* C18: n >= 1 consecutive lines, each a dash marker, an optional space and
\* plain-text content, parse to exactly one ListBlock with ordered = false
\* and n items in source order, each holding one Paragraph with the line's
\* content; with number markers the ListBlock has ordered = true.
C18_ListLines ==
    \A ordered \in BOOLEAN :
        (ParseCalled /\ IsListText(text, ordered)) =>
            /\ doc.ok
            /\ Len(doc.val.blocks) = 1
            /\ doc.val.blocks[1].node = "ListBlock"
            /\ doc.val.blocks[1].ordered = ordered
            /\ Len(doc.val.blocks[1].items) = Len(LinesOf(text))
            /\ \A i \in 1..Len(LinesOf(text)) :
                  ItemHolds(doc.val.blocks[1].items[i], LineContent(LinesOf(text)[i], ordered))

\* three dash lines were parsed, and two number lines were
C18_Witness ==
    /\ ParseCalled
    /\ IsListText(text, FALSE)
    /\ Len(LinesOf(text)) = 3
    /\ LineContent(LinesOf(text)[3], FALSE) = <<"a">>
    /\ Len(doc.val.blocks[1].items) = 3

\* what follows the '>' of a quoted line and one optional space
QuoteContent(line) ==
    IF Tail(line) # <<>> /\ Head(Tail(line)) = SP THEN Tail(Tail(line)) ELSE Tail(line)

\* a line that starts with '>', optionally followed by one space and text
IsQuoteLine(line) ==
    /\ line # <<>>
    /\ Head(line) = ">"
    /\ \A k \in 1..Len(QuoteContent(line)) : QuoteContent(line)[k] \in {"a", "b", SP}

\* the text is k >= 1 consecutive quoted lines
IsQuoteText(s) ==
    /\ \A i \in 1..Len(LinesOf(s)) : IsQuoteLine(LinesOf(s)[i])
    /\ LinesOf(s) # <<>>

\* a Paragraph of Text nodes spelling content
ParagraphHolds(block, content) ==
    /\ block.node = "Paragraph"
    /\ \A k \in 1..Len(block.inlines) : block.inlines[k].node = "Text"
    /\ TextOf(block.inlines) = content

\* C19: k >= 1 consecutive lines that each start with '>' parse to one
\* BlockQuote with k Paragraph children, child i holding the text of line i
\* without its '>' and one following space, and to no other block.
C19_QuoteLines ==
    (ParseCalled /\ IsQuoteText(text)) =>
        /\ doc.ok
        /\ Len(doc.val.blocks) = 1
        /\ doc.val.blocks[1].node = "BlockQuote"
        /\ Len(doc.val.blocks[1].children) = Len(LinesOf(text))
        /\ \A i \in 1..Len(LinesOf(text)) :
              ParagraphHolds(doc.val.blocks[1].children[i], QuoteContent(LinesOf(text)[i]))

RECURSIVE BacktickRun(_)
\* the number of backticks a text starts with
BacktickRun(s) == IF s # <<>> /\ Head(s) = BT THEN 1 + BacktickRun(Tail(s)) ELSE 0

\* the text from 0-based index i to its end (the whole to the end if i < 0)
After(s, i) == IF i < 0 THEN <<>> ELSE SubSeq(s, i + 1, Len(s))

\* the text before 0-based index i (the whole text if i < 0)
Before(s, i) == IF i < 0 THEN s ELSE SubSeq(s, 1, i)

\* the fence of the text: as many backticks as it starts with
Fence(s) == [k \in 1..BacktickRun(s) |-> BT]

\* the opening line after the fence, without its newline
FenceLine(s) == Before(After(s, BacktickRun(s)), Find(After(s, BacktickRun(s)), <<NL>>, 0))

\* the source after the newline that ends the opening line
FenceBody(s) ==
    IF Find(s, <<NL>>, 0) < 0 THEN <<>> ELSE After(s, Find(s, <<NL>>, 0) + 1)

\* the source between the opening line and the closing fence
FenceCode(s) == Before(FenceBody(s), Find(FenceBody(s), Fence(s), 0))

\* the trimmed rest of the opening line, absent when empty
FenceLanguage(s) == IF Strip(FenceLine(s)) = <<>> THEN None ELSE Strip(FenceLine(s))

\* the source after the closing fence
FenceTail(s) ==
    IF Find(FenceBody(s), Fence(s), 0) < 0 THEN <<>>
    ELSE After(FenceBody(s), Find(FenceBody(s), Fence(s), 0) + BacktickRun(s))

\* the source after the line of the closing fence
FenceRest(s) ==
    IF Find(FenceTail(s), <<NL>>, 0) < 0 THEN <<>>
    ELSE After(FenceTail(s), Find(FenceTail(s), <<NL>>, 0) + 1)

\* C20: a run of k >= 3 backticks at block start yields one CodeBlock whose
\* language is the trimmed rest of the opening line (absent when empty) and
\* whose code is the source between the newline ending the opening line and
\* the closing fence, character for character; the closing fence and the
\* rest of its line appear in no node: the blocks that follow are those of
\* the source after that line.
C20_FencedCode ==
    (ParseCalled /\ BacktickRun(text) >= 3) =>
        IF ParseMarkdown(FenceRest(text)).ok
        THEN /\ doc.ok
             /\ doc.val.blocks =
                    <<CodeBlock(FenceCode(text), FenceLanguage(text))>>
                        \o ParseMarkdown(FenceRest(text)).val.blocks
        ELSE ~doc.ok

\* a fenced block with a language, a line of code and a closing fence was parsed
C20_Witness ==
    /\ ParseCalled
    /\ text = <<BT, BT, BT, "a", NL, "b", NL, BT, BT, BT>>
    /\ doc.val.blocks = <<CodeBlock(<<"b", NL>>, <<"a">>)>>

RECURSIVE WordRun(_)
\* the number of letters a text starts with
WordRun(s) == IF s # <<>> /\ Head(s) \in {"a", "b"} THEN 1 + WordRun(Tail(s)) ELSE 0

\* the text is a word, a newline and a remainder
IsWordLine(s) == WordRun(s) > 0 /\ Len(s) > WordRun(s) /\ s[WordRun(s) + 1] = NL

\* what follows the newline of the first line
AfterLine(s) == After(s, WordRun(s) + 1)

\* the remainder starts with a heading marker, a dash or number marker, an
\* open fence or a '>'
StartsBlock(s) ==
    \/ HashRun(s) > 0
    \/ MarkerLen(s, FALSE) > 0
    \/ MarkerLen(s, TRUE) > 0
    \/ BacktickRun(s) >= 3
    \/ (s # <<>> /\ Head(s) = ">")

\* C21: in a paragraph a newline followed by further content of the paragraph
\* contributes exactly one Text(" "); a newline followed by another newline,
\* by end of input or by a block-start token ends the paragraph without a
\* space and without consuming the block-start tokens: the next blocks are
\* those of the remainder.
C21_SoftBreak ==
    (ParseCalled /\ IsWordLine(text) /\ ParseMarkdown(AfterLine(text)).ok) =>
        /\ doc.ok
        /\ IF AfterLine(text) = <<>> \/ Head(AfterLine(text)) = NL \/ StartsBlock(AfterLine(text))
           THEN doc.val.blocks =
                    <<Paragraph(<<Text(Before(text, WordRun(text)))>>)>>
                        \o ParseMarkdown(AfterLine(text)).val.blocks
           ELSE WordRun(AfterLine(text)) > 0 =>
                    doc.val.blocks =
                        <<Paragraph(<<Text(Before(text, WordRun(text))), Text(<<SP>>)>>
                                      \o ParseMarkdown(AfterLine(text)).val.blocks[1].inlines)>>
                            \o Tail(ParseMarkdown(AfterLine(text)).val.blocks)

RECURSIVE CharRun(_, _)
\* the number of characters c a text starts with
CharRun(s, c) == IF s # <<>> /\ Head(s) = c THEN 1 + CharRun(Tail(s), c) ELSE 0

\* the source after the first line of a text
AfterFirstLine(s) == IF Find(s, <<NL>>, 0) < 0 THEN <<>> ELSE After(s, Find(s, <<NL>>, 0) + 1)

\* C22: a line at block start that begins with three or more '-' or with
\* three or more '*' parses to a HorizontalRule, and the remainder of the
\* line is discarded: the blocks that follow are those of the next lines.
C22_HorizontalRule ==
    (ParseCalled /\ (CharRun(text, "-") >= 3 \/ CharRun(text, "*") >= 3)
         /\ ParseMarkdown(AfterFirstLine(text)).ok) =>
        /\ doc.ok
        /\ doc.val.blocks = <<HorizontalRule>> \o ParseMarkdown(AfterFirstLine(text)).val.blocks

-----------------------------------------------------------------------------
(* mdparser/markdown_parser/parser.py: the lookahead probes, called on a    *)
(* parser whose token cursor is anywhere in the token list                  *)

\* the characters of the texts probed, and the texts
ProbeAlphabet == {"-", "*", BT, "a", NL}
ProbeTexts == StringsUpTo(ProbeAlphabet, MaxProbeLen)

\* Parser(Lexer(text).tokenize())
ProbeInit ==
    /\ text \in ProbeTexts
    /\ tokens = Tokenize(text)
    /\ pos = 0 /\ prevPos = 0 /\ calls = 0
    /\ ParseIdle
    /\ CacheIdle
    /\ ManagerIdle
    /\ ServiceIdle
    /\ ThreadIdle
    /\ RenderIdle
    /\ ProbeIdle
    /\ InstanceIdle

\* self.tokens.next() by a caller of the probes
StreamNext ==
    /\ ~TSEof(tokens, tpos)
    /\ tpos' = TSNext(tokens, tpos)
    /\ probe' = <<>>

\* a probe has returned result and left the cursor at p
ProbeReturns(name, r, p) ==
    /\ probe' = [name |-> name, before |-> tpos, result |-> r]
    /\ tpos' = p

\* self._is_hr_line()
IsHrLineCall ==
    ProbeReturns("_is_hr_line", IsHrLine(tokens, tpos).result, IsHrLine(tokens, tpos).pos)

\* self._is_open_fence()
IsOpenFenceCall == ProbeReturns("_is_open_fence", IsOpenFence(tokens, tpos), tpos)

\* self._is_close_fence(fence_count)
IsCloseFenceCall ==
    \E fence_count \in 1..MaxFence :
        ProbeReturns("_is_close_fence", IsCloseFence(tokens, tpos, fence_count), tpos)

ProbeNext == StreamNext \/ IsHrLineCall \/ IsOpenFenceCall \/ IsCloseFenceCall

ProbeStep ==
    /\ ProbeNext
    /\ UNCHANGED <<lexVars, parseVars, cacheVars, cacheHist, mgrVars, svcVars, thrVars, rndVars,
                   instVars>>

ProbeSpec == ProbeInit /\ [][ProbeStep]_vars

\* C23: the probes _is_hr_line, _is_open_fence and _is_close_fence never
\* consume tokens: whether a probe returned true or false, the token cursor
\* is where it was before the probe.
C23_ProbesKeepCursor == probe # <<>> => tpos = probe.before

\* a line is a list line introduced by a dash or by a number marker
IsItemLine(line) == IsListLine(line, FALSE) \/ IsListLine(line, TRUE)

RECURSIVE SameMarkerRun(_, _)
\* the number of leading lines introduced by the kind of marker given
SameMarkerRun(lines, ordered) ==
    IF lines # <<>> /\ IsListLine(Head(lines), ordered)
    THEN 1 + SameMarkerRun(Tail(lines), ordered) ELSE 0

\* C24: every ListBlock is homogeneous: dash-marked and number-marked items
\* are never placed in the same ListBlock, so of consecutive list lines the
\* first ListBlock holds the leading lines that share the first line's kind
\* of marker, with ordered = false for dashes and ordered = true for numbers.
C24_HomogeneousList ==
    (ParseCalled /\ LinesOf(text) # <<>> /\ ~StartsWith(text, <<"-", "-", "-">>)
         /\ \A i \in 1..Len(LinesOf(text)) : IsItemLine(LinesOf(text)[i])) =>
        /\ doc.ok
        /\ doc.val.blocks[1].node = "ListBlock"
        /\ doc.val.blocks[1].ordered = IsListLine(LinesOf(text)[1], TRUE)
        /\ Len(doc.val.blocks[1].items) =
               SameMarkerRun(LinesOf(text), IsListLine(LinesOf(text)[1], TRUE))

RECURSIVE BoldEnd(_, _)
\* the cursor of the first DOUBLE_STAR or NEWLINE token at or after p, or of the end
BoldEnd(ts, p) ==
    IF TSEof(ts, p) \/ TSMatch(ts, p, "DOUBLE_STAR") \/ TSMatch(ts, p, "NEWLINE")
    THEN p ELSE BoldEnd(ts, TSNext(ts, p))

\* the tokens before the cursor e, as a token list of their own
TokensBefore(ts, e) == SubSeq(ts, 1, e)

\* the Bold that opens a text of tokens ts is the one collected from the
\* tokens before the cursor e, and what follows it starts after the closer
BoldEndsAt(ts, e, inlines) ==
    /\ inlines[1] = ParseBold(TokensBefore(ts, e), 0).val
    /\ (TSMatch(ts, e, "DOUBLE_STAR") /\ TSMatch(ts, e + 1, "TEXT")) =>
           (Len(inlines) > 1 /\ inlines[2] = Text(TSPeek(ts, e + 1).value))
    /\ (TSMatch(ts, e, "DOUBLE_STAR") /\ TSEof(ts, e + 1)) => Len(inlines) = 1
    /\ (TSMatch(ts, e, "NEWLINE") /\ TSMatch(ts, e + 1, "TEXT")) =>
           (Len(inlines) > 1 /\ inlines[2] = Text(<<SP>>))

\* C25: a Bold opened by a double-star token is closed by the next
\* double-star token on the same line, which is consumed as its closer, or,
\* if there is none, ends at the newline or the end of input with the
\* children collected so far; the newline is not consumed by the bold.
C25_BoldClosed ==
    (ParseCalled /\ doc.ok /\ TSMatch(Tokenize(text), 0, "DOUBLE_STAR")
         /\ ParseBold(TokensBefore(Tokenize(text), BoldEnd(Tokenize(text), 1)), 0).ok) =>
        /\ doc.val.blocks[1].node = "Paragraph"
        /\ BoldEndsAt(Tokenize(text), BoldEnd(Tokenize(text), 1),
                      doc.val.blocks[1].inlines)

RECURSIVE PlainRun(_)
\* the number of leading letters and spaces of s
PlainRun(s) == IF s # <<>> /\ Head(s) \in {"a", "b", SP} THEN 1 + PlainRun(Tail(s)) ELSE 0

\* what follows the opening run of backticks, and the plain content it starts with
SpanRest(s) == After(s, BacktickRun(s))
SpanContent(s) == Before(SpanRest(s), PlainRun(SpanRest(s)))

\* the run of backticks that follows the plain content
SpanCloser(s) == Before(After(SpanRest(s), PlainRun(SpanRest(s))),
                        BacktickRun(After(SpanRest(s), PlainRun(SpanRest(s)))))

\* s is a run of one or two backticks, plain content and a run of backticks
IsSpanText(s) ==
    /\ BacktickRun(s) \in 1..2
    /\ BacktickRun(s) + Len(SpanContent(s)) + Len(SpanCloser(s)) = Len(s)

\* C26: a code span opened by a run of k backticks is closed only by the
\* next run of exactly k backticks: a longer or a shorter run does not close
\* it and belongs to the code, and the code is the concatenated text of the
\* tokens between the delimiters with surrounding whitespace trimmed.
C26_CodeSpanClosed ==
    (ParseCalled /\ IsSpanText(text)) =>
        /\ doc.ok
        /\ doc.val.blocks =
               <<Paragraph(<<CodeSpan(Strip(
                   IF Len(SpanCloser(text)) = BacktickRun(text)
                   THEN SpanContent(text)
                   ELSE SpanContent(text) \o SpanCloser(text)))>>)>>

-----------------------------------------------------------------------------
(* Parser.parse followed block by block: tokens is the token list, tpos the  *)
(* cursor at the top of the block loop, doc the blocks appended so far and   *)
(* probe the last parse_block call with the cursor before and after it.      *)

RECURSIVE Nesting(_)
RECURSIVE NestingAll(_)

\* the deepest chain of parse_bold, parse_italic, parse_link and
\* parse_codespan calls one inside the other that built the node n
Nesting(n) ==
    CASE n.node \in {"Bold", "Italic"} -> 1 + NestingAll(n.children)
      [] n.node = "Link" -> 1 + NestingAll(n.text_nodes)
      [] n.node = "CodeSpan" -> 1
      [] n.node \in {"Paragraph", "Heading"} -> NestingAll(n.inlines)
      [] n.node \in {"BlockQuote", "ListItem"} -> NestingAll(n.children)
      [] n.node = "ListBlock" -> NestingAll(n.items)
      [] OTHER -> 0

NestingAll(nodes) ==
    IF nodes = <<>> THEN 0
    ELSE IF Nesting(Head(nodes)) > NestingAll(Tail(nodes))
    THEN Nesting(Head(nodes)) ELSE NestingAll(Tail(nodes))

\* a lower bound of the frames on the interpreter's stack at the deepest
\* point of the parse_block call that returned block: parse, parse_block,
\* TokenStream.match and peek for any block; with inline content parse,
\* parse_block, the block's method, parse_inline_until, the nested inline
\* methods, and the match and peek called by the innermost
Frames(block) == IF Nesting(block) = 0 THEN 4 ELSE 6 + Nesting(block)

\* Parser(Lexer(text).tokenize()).parse() up to its block loop
ParserInit ==
    /\ text \in ParseTexts
    /\ tokens = Tokenize(text)
    /\ pos = 0 /\ prevPos = 0 /\ calls = 0
    /\ pc = "parse"
    /\ doc = <<>>
    /\ dict = <<>>
    /\ restored = <<>>
    /\ tpos = SkipNewlines(tokens, 0)
    /\ probe = <<>>
    /\ CacheIdle
    /\ ManagerIdle
    /\ ServiceIdle
    /\ ThreadIdle
    /\ RenderIdle
    /\ InstanceIdle

\* parse_block has ended as b: it raised ParseError, or the interpreter
\* raised RecursionError inside it (followed only where the frames needed
\* surely exceed the limit), or parse appends the block and skips the
\* newlines after it
ParseBlockReturns(b) ==
    /\ probe' = [name |-> "parse_block", before |-> tpos, after |-> b.pos]
    /\ IF ~b.ok
       THEN pc' = "ParseError" /\ tpos' = b.pos /\ UNCHANGED doc
       ELSE IF Frames(b.val) > RecursionLimit
       THEN pc' = "RecursionError" /\ tpos' = b.pos /\ UNCHANGED doc
       ELSE /\ doc' = Append(doc, b.val)
            /\ tpos' = SkipNewlines(tokens, b.pos)
            /\ UNCHANGED pc

\* one turn of "while not self.tokens.eof()" in Parser.parse
ParseBlockCall ==
    /\ pc = "parse"
    /\ ~TSEof(tokens, tpos)
    /\ ParseBlockReturns(ParseBlock(tokens, tpos))

\* return Document(blocks=blocks)
ParseReturn ==
    /\ pc = "parse"
    /\ TSEof(tokens, tpos)
    /\ pc' = "returned"
    /\ doc' = Document(doc)
    /\ UNCHANGED prbVars

ParserNext == ParseBlockCall \/ ParseReturn

ParserStep ==
    /\ ParserNext
    /\ UNCHANGED <<lexVars, dict, restored, cacheVars, cacheHist, mgrVars, svcVars,
                   thrVars, rndVars, instVars>>

ParserSpec == ParserInit /\ [][ParserStep]_vars

\* C27: for every token list of Lexer.tokenize, Parser.parse ends by
\* returning a Document or raising ParseError and never by another
\* exception; every parse_block call of the top-level loop consumes at least
\* one token, and leaves the cursor no further back than it found it.
C27_ParseTotal ==
    /\ pc \in {"parse", "returned", "ParseError"}
    /\ pc = "returned" => doc = ParseMarkdown(text).val
    /\ probe # <<>> => probe.after > probe.before

-----------------------------------------------------------------------------
(* mdparser/inline_parser.py: parse_inline_from_text(text) followed turn by *)
(* turn of its "while i < n" loop: tpos is the index i, doc the list nodes,  *)
(* and probe the last turn with the index before and after it.  A nested     *)
(* call that never returns leaves the outer call hung.                       *)

InlineAlphabet == {"a", SP, "*", "[", "]", "(", ")"}

InlineTexts == StringsUpTo(InlineAlphabet, MaxInlineLen)

\* a turn that made a nested call: hung with it, or one node appended and i = next
InlineTurnNested(next, kind, href, inner) ==
    IF ~inner.ok THEN [ok |-> FALSE, i |-> next, nodes |-> <<>>]
    ELSE [ok |-> TRUE, i |-> next,
          nodes |-> << CASE kind = "Bold" -> Bold2(inner.val)
                         [] kind = "Italic" -> Italic2(inner.val)
                         [] kind = "Link" -> Link2(inner.val, href) >>]

\* one turn of the "while i < n" loop of parse_inline_from_text
InlineTurn(s, i) ==
    LET n == Len(s)
        jb == Find(s, <<"*", "*">>, i + 2)
        ji == Find(s, <<"*">>, i + 1)
        rb == Find(s, <<"]">>, i + 1)
        rp == Find(s, <<")">>, rb + 2)
        e == StopEnd(s, i, {"*", "["})
    IN  IF StartsWithAt(s, <<"*", "*">>, i) /\ jb # -1
        THEN InlineTurnNested(jb + 2, "Bold", <<>>,
                              parse_inline_from_text(Slice(s, i + 2, jb)))
        ELSE IF StartsWithAt(s, <<"*">>, i) /\ ji # -1
        THEN InlineTurnNested(ji + 1, "Italic", <<>>,
                              parse_inline_from_text(Slice(s, i + 1, ji)))
        ELSE IF StartsWithAt(s, <<"[">>, i) /\ rb # -1 /\ rb + 1 < n /\ s[rb + 2] = "("
                /\ rp # -1
        THEN InlineTurnNested(rp + 1, "Link", Slice(s, rb + 2, rp),
                              parse_inline_from_text(Slice(s, i + 1, rb)))
        \* "accumulate text": i moves to the next '*' or '[' and the text
        \* passed, if any, is appended
        ELSE [ok |-> TRUE, i |-> e,
              nodes |-> IF i < e THEN <<Text2(Slice(s, i, e))>> ELSE <<>>]

\* parse_inline_from_text(text) up to its loop
InlineTextInit ==
    /\ text \in InlineTexts
    /\ pos = 0 /\ tokens = <<>> /\ prevPos = 0 /\ calls = 0
    /\ pc = "while"
    /\ doc = <<>>
    /\ dict = <<>>
    /\ restored = <<>>
    /\ ProbeIdle
    /\ InstanceIdle
    /\ CacheIdle
    /\ ManagerIdle
    /\ ServiceIdle
    /\ ThreadIdle
    /\ RenderIdle

\* the turn has ended as r
InlineTurnReturns(r) ==
    /\ probe' = [name |-> "while i < n", before |-> tpos, after |-> r.i]
    /\ IF ~r.ok
       THEN pc' = "hung" /\ UNCHANGED <<tpos, doc>>
       ELSE tpos' = r.i /\ doc' = doc \o r.nodes /\ UNCHANGED pc

\* "while i < n": one turn
InlineTurnCall ==
    /\ pc = "while"
    /\ tpos < Len(text)
    /\ InlineTurnReturns(InlineTurn(text, tpos))

\* "merge adjacent Text" and "return merged"
InlineReturn ==
    /\ pc = "while"
    /\ tpos >= Len(text)
    /\ pc' = "returned"
    /\ doc' = MergeText(doc, <<>>)
    /\ UNCHANGED prbVars

InlineTextNext == InlineTurnCall \/ InlineReturn

InlineTextStep ==
    /\ InlineTextNext
    /\ UNCHANGED <<lexVars, dict, restored, cacheVars, cacheHist, mgrVars, svcVars,
                   thrVars, rndVars, instVars>>

InlineTextSpec == InlineTextInit /\ [][InlineTextStep]_vars

\* C28: parse_inline_from_text terminates for every string, also with an
\* unmatched '*', '**' or '[': every turn of its loop advances the index, no
\* nested call hangs, and the call returns what the loop collected.
C28_InlineTerminates ==
    /\ pc # "hung"
    /\ probe # <<>> => probe.after > probe.before
    /\ pc = "returned" => parse_inline_from_text(text) = Returned(doc)

\* C29: for every capacity C >= 0 and every sequence of get, set and clear
\* calls on an LRUCache or an LFUCache, no call raises and the number of
\* stored entries never exceeds C.
C29_WithinCapacity ==
    /\ ~lastOp.raised
    /\ Len(cache) <= capacity

-----------------------------------------------------------------------------
(* mdparser/markdown_parser/renderer.py: PlainTextRenderer.  A visit gives   *)
(* the fragments it appends to self._parts.                                  *)

RECURSIVE Hashes(_)
\* "#" * level
Hashes(level) == IF level <= 0 THEN "" ELSE "#" \o Hashes(level - 1)

RECURSIVE PlainAccept(_)
RECURSIVE PlainAcceptAll(_)
RECURSIVE PlainLinkText(_)
RECURSIVE PlainLinkOthers(_)
RECURSIVE PlainItems(_, _, _)
RECURSIVE PlainQuoted(_)
RECURSIVE PlainBlocks(_)

\* "for c in children: c.accept(self)"
PlainAcceptAll(nodes) ==
    IF nodes = <<>> THEN <<>> ELSE PlainAccept(Head(nodes)) \o PlainAcceptAll(Tail(nodes))

\* visit_link: the text of the Text children, joined
PlainLinkText(nodes) ==
    IF nodes = <<>> THEN <<>>
    ELSE (IF Head(nodes).node = "Text" THEN Head(nodes).text ELSE <<>>)
             \o PlainLinkText(Tail(nodes))

\* visit_link: the other children are visited, in order, before the link is written
PlainLinkOthers(nodes) ==
    IF nodes = <<>> THEN <<>>
    ELSE (IF Head(nodes).node = "Text" THEN <<>> ELSE PlainAccept(Head(nodes)))
             \o PlainLinkOthers(Tail(nodes))

\* a Paragraph child of a list item or of a blockquote gives its inlines
PlainChild(c) == IF c.node = "Paragraph" THEN PlainAcceptAll(c.inlines) ELSE PlainAccept(c)

\* PlainTextRenderer.visit_list: the items from number i on
PlainItems(items, ordered, i) ==
    IF items = <<>> THEN <<>>
    ELSE <<IF ordered THEN Str(i) \o ". " ELSE "- ">>
             \o (IF Head(items).children = <<>> THEN <<>>
                 ELSE PlainChild(Head(items).children[1]))
             \o <<NL>> \o PlainItems(Tail(items), ordered, i + 1)

\* PlainTextRenderer.visit_blockquote
PlainQuoted(children) ==
    IF children = <<>> THEN <<>>
    ELSE <<"> ">> \o PlainChild(Head(children)) \o <<NL>> \o PlainQuoted(Tail(children))

\* PlainTextRenderer.visit_document
PlainBlocks(blocks) ==
    IF blocks = <<>> THEN <<>>
    ELSE PlainAccept(Head(blocks)) \o <<NL>> \o PlainBlocks(Tail(blocks))

\* node.accept(renderer): the visit_* method of PlainTextRenderer for the node
PlainAccept(n) ==
    CASE n.node = "Document" -> PlainBlocks(n.blocks)
      [] n.node = "Paragraph" -> PlainAcceptAll(n.inlines) \o <<NL \o NL>>
      [] n.node = "Heading" ->
            <<Hashes(n.level) \o " ">> \o PlainAcceptAll(n.inlines) \o <<NL \o NL>>
      [] n.node = "Text" -> n.text
      [] n.node = "Bold" -> <<"**">> \o PlainAcceptAll(n.children) \o <<"**">>
      [] n.node = "Italic" -> <<"*">> \o PlainAcceptAll(n.children) \o <<"*">>
      [] n.node = "Link" ->
            PlainLinkOthers(n.text_nodes) \o <<"[">> \o PlainLinkText(n.text_nodes)
                \o <<"](">> \o (IF n.url = None THEN <<"None">> ELSE n.url) \o <<")">>
      [] n.node = "ListBlock" -> PlainItems(n.items, n.ordered, 1)
      [] n.node = "ListItem" -> <<>>
      [] n.node = "CodeBlock" ->
            <<BT \o BT \o BT>> \o (IF n.language = None THEN <<>> ELSE n.language)
                \o <<NL>> \o n.code \o <<NL \o BT \o BT \o BT \o NL>>
      [] n.node = "CodeSpan" -> <<BT>> \o n.code \o <<BT>>
      [] n.node = "BlockQuote" -> PlainQuoted(n.children)
      [] n.node = "HorizontalRule" -> <<"---" \o NL>>

-----------------------------------------------------------------------------
(* One renderer object used for several trees, as run_bench uses its        *)
(* HTMLRenderer: renderer holds the object's class, its pretty flag and its  *)
(* _parts; doc is the tree of the latest render call and html what it        *)
(* returned.                                                                 *)

\* the texts whose trees are rendered
InstanceTexts ==
    StringsUpTo({"a", "<"}, 1) \cup RenderPieces
        \cup { <<"-", "-", "-">>, <<"1", ".", SP, "a", NL>>, <<"*", "a", "*">> }

\* HTMLRenderer(pretty=...) and PlainTextRenderer()
Renderers ==
    { [class |-> "HTMLRenderer", pretty |-> TRUE, _parts |-> <<>>],
      [class |-> "HTMLRenderer", pretty |-> FALSE, _parts |-> <<>>],
      [class |-> "PlainTextRenderer", pretty |-> FALSE, _parts |-> <<>>] }

\* what node.accept(r) appends to r._parts
Visit(r, node) ==
    IF r.class = "HTMLRenderer" THEN Accept(node, r.pretty, 0).html ELSE PlainAccept(node)

\* the string a renderer object constructed for this one call returns for the tree
Rendering(r, node) == Visit(r, node)

InstanceInit ==
    /\ renderer \in Renderers
    /\ renders = 0
    /\ text = <<>>
    /\ pos = 0 /\ tokens = <<>> /\ prevPos = 0 /\ calls = 0
    /\ ParseIdle
    /\ CacheIdle
    /\ ManagerIdle
    /\ ServiceIdle
    /\ ThreadIdle
    /\ RenderIdle
    /\ ProbeIdle

\* BaseRenderer.render(node): node.accept(self); return self.get_output()
RenderReturnsParts(node, parts) ==
    /\ renderer' = [renderer EXCEPT !._parts = parts]
    /\ html' = parts
    /\ doc' = node
    /\ renders' = renders + 1

\* renderer.render(doc) on the HTMLRenderer
HTMLRenderCall ==
    /\ renderer.class = "HTMLRenderer"
    /\ renders < MaxRenders
    /\ \E t \in InstanceTexts :
           /\ ParseMarkdown(t).ok
           /\ RenderReturnsParts(ParseMarkdown(t).val,
                  renderer._parts \o Visit(renderer, ParseMarkdown(t).val))

\* renderer.render(doc) on the PlainTextRenderer
PlainRenderCall ==
    /\ renderer.class = "PlainTextRenderer"
    /\ renders < MaxRenders
    /\ \E t \in InstanceTexts :
           /\ ParseMarkdown(t).ok
           /\ RenderReturnsParts(ParseMarkdown(t).val,
                  renderer._parts \o Visit(renderer, ParseMarkdown(t).val))

InstanceNext == HTMLRenderCall \/ PlainRenderCall

InstanceStep ==
    /\ InstanceNext
    /\ UNCHANGED <<lexVars, pc, dict, restored, cacheVars, cacheHist, mgrVars, svcVars,
                   thrVars, emits, prbVars>>

InstanceSpec == InstanceInit /\ [][InstanceStep]_vars

\* C30: HTMLRenderer.render(doc) and PlainTextRenderer.render(doc) return
\* the rendering of doc alone, whatever the renderer object rendered
\* before; so rendering the same tree twice with one object returns the
\* same string both times.
C30_RendersDocAlone == renders > 0 => html = Rendering(renderer, doc)

====
